---------------------------- MODULE Spec2Model ----------------------------
(***************************************************************************)
(* A model of the line editor "red" (package red): the address tokenizer   *)
(* and resolver, the range resolver, the command executor, the mark table  *)
(* and the undo stack.                                                     *)
(*                                                                         *)
(* Text is modelled as sequences of one-character strings; a Line is such  *)
(* a sequence ending in the terminator "\n".  A *list.List is a sequence.  *)
(* A *list.Element (dotline) is the 1-based index of the element in        *)
(* Buffer, 0 for nil and -1 for an element that was removed from Buffer.   *)
(* A panic of the program is the error code "panic"; once it happened no   *)
(* further command runs.                                                   *)
(***************************************************************************)
EXTENDS Integers, Sequences, FiniteSets, TLC

VARIABLES
    Buffer,                 \* State.Buffer: sequence of Lines
    CutBuffer,              \* State.CutBuffer
    dotline,                \* State.dotline (see above)
    marks,                  \* State.marks: the map as a set of pairs <<name, line number>>
    lineNbr,                \* State.lineNbr
    undo,                   \* State.undo: sequence of Undo records, front first
    processingUndo,         \* State.processingUndo
    changedSinceLastWrite,  \* State.changedSinceLastWrite
    lastSubstRE,            \* State.lastSubstRE: the pattern, <<>> for nil
    lastSubstReplacement,   \* State.lastSubstReplacement
    last,                   \* the command ProcessCommand ran last and what it returned
    pre,                    \* Buffer, marks and lineNbr before the last command that pushed an undo
    addrStr,                \* input of newAddress
    address,                \* result of newAddress
    resolved,               \* result of calculateActualLineNumber
    addrRange,              \* result of newRange
    resolvedRange,          \* result of calculateStartAndEndLineNumbers
    pc                      \* position of the address resolution run

vars == <<Buffer, CutBuffer, dotline, marks, lineNbr, undo, processingUndo,
          changedSinceLastWrite, lastSubstRE, lastSubstReplacement, last, pre,
          addrStr, address, resolved, addrRange, resolvedRange, pc>>

edVars == <<Buffer, CutBuffer, dotline, marks, lineNbr, undo, processingUndo,
            changedSinceLastWrite, lastSubstRE, lastSubstReplacement, last, pre>>

addrVars == <<addrStr, address, resolved, addrRange, resolvedRange, pc>>

----------------------------------------------------------------------------
(* Bounds of the model *)

MaxLines == 3       \* longest Buffer
MaxUndo == 1        \* deepest undo stack
MaxUndoDeep == 2    \* deepest undo stack of the specification of undo
MaxSearchLines == 4    \* longest buffer a search address is resolved in
MaxAddrLen == 3     \* longest address string given to newAddress
MaxAddrN == 3       \* the short buffers address resolution runs against: 0..MaxAddrN lines
BigAddrN == 10      \* and one long buffer, so that a two-digit number can resolve

----------------------------------------------------------------------------
(* Text *)

La == <<"a", "\n">>
Lb == <<"b", "\n">>
Lx == <<"x", "\n">>
Ly == <<"y", "\n">>
Texts == {La, Lb}

Digits == {"0", "1", "2", "3", "4", "5", "6", "7", "8", "9"}
LowerCase == {"a", "b", "c", "d", "e", "f", "g", "h", "i", "j", "k", "l", "m",
              "n", "o", "p", "q", "r", "s", "t", "u", "v", "w", "x", "y", "z"}

DigitVal(c) ==
    CASE c = "0" -> 0 [] c = "1" -> 1 [] c = "2" -> 2 [] c = "3" -> 3 [] c = "4" -> 4
      [] c = "5" -> 5 [] c = "6" -> 6 [] c = "7" -> 7 [] c = "8" -> 8 [] c = "9" -> 9

DigitChar(d) ==
    CASE d = 0 -> "0" [] d = 1 -> "1" [] d = 2 -> "2" [] d = 3 -> "3" [] d = 4 -> "4"
      [] d = 5 -> "5" [] d = 6 -> "6" [] d = 7 -> "7" [] d = 8 -> "8" [] d = 9 -> "9"

RECURSIVE DigitsVal(_)
DigitsVal(s) ==
    IF s = <<>> THEN 0 ELSE 10 * DigitsVal(SubSeq(s, 1, Len(s) - 1)) + DigitVal(s[Len(s)])

\* strconv.Atoi on a string the address expression matched: [+-]?\d+
Atoi(s) ==
    IF s[1] = "-" THEN 0 - DigitsVal(Tail(s))
    ELSE IF s[1] = "+" THEN DigitsVal(Tail(s))
    ELSE DigitsVal(s)

RECURSIVE NatStr(_)
NatStr(n) == IF n < 10 THEN <<DigitChar(n)>> ELSE NatStr(n \div 10) \o <<DigitChar(n % 10)>>

\* strconv.Itoa
Itoa(n) == IF n < 0 THEN <<"-">> \o NatStr(0 - n) ELSE NatStr(n)

RECURSIVE TrimLeft(_)
TrimLeft(s) == IF s # <<>> /\ s[1] = " " THEN TrimLeft(Tail(s)) ELSE s

RECURSIVE TrimRight(_)
TrimRight(s) ==
    IF s # <<>> /\ s[Len(s)] = " " THEN TrimRight(SubSeq(s, 1, Len(s) - 1)) ELSE s

\* strings.TrimSpace
TrimSpace(s) == TrimRight(TrimLeft(s))

\* a pattern of literal characters and ".": "." is any character but the newline.
\* MatchesAt: the pattern matches the text at position i
MatchesAt(re, text, i) ==
    /\ i + Len(re) - 1 <= Len(text)
    /\ \A k \in 1..Len(re) :
           IF re[k] = "." THEN text[i + k - 1] # "\n" ELSE text[i + k - 1] = re[k]

\* regexp.MatchString: the pattern matches somewhere in the line
MatchString(re, line) ==
    \E i \in 1..(Len(line) - Len(re) + 1) : MatchesAt(re, line, i)

\* regexp.ReplaceAllString for a replacement without "$": every match, leftmost
\* first and not overlapping, is replaced
RECURSIVE ReplaceAllString(_, _, _)
ReplaceAllString(re, src, repl) ==
    IF src = <<>> THEN <<>>
    ELSE IF MatchesAt(re, src, 1)
    THEN repl \o ReplaceAllString(re, SubSeq(src, Len(re) + 1, Len(src)), repl)
    ELSE <<Head(src)>> \o ReplaceAllString(re, Tail(src), repl)

\* strings.Split for a separator of one character
RECURSIVE Split(_, _)
Split(s, sep) ==
    LET At(i) == <<SubSeq(s, 1, i - 1)>> \o Split(SubSeq(s, i + 1, Len(s)), sep)
    IN  IF \A i \in 1..Len(s) : s[i] # sep THEN <<s>>
        ELSE At(CHOOSE i \in 1..Len(s) : s[i] = sep /\ \A j \in 1..(i - 1) : s[j] # sep)

\* a Go map[string]int is the set of its pairs <<key, value>>
HasMark(mks, name) == \E m \in mks : m[1] = name
MarkLine(mks, name) == (CHOOSE m \in mks : m[1] = name)[2]

----------------------------------------------------------------------------
(* Addresses: address.go *)

identComma == ","
identDec == "-"
identDot == "."
identDollar == "$"
identInc == "+"
identMark == "'"
identNotSpecified == "XXX"
identRegexBackward == "?"
identRegexForward == "/"
identSemicolon == ";"
identSignedNbr == "1"

endOfFile == 0 - 2

Part(ident, info) == [addrIdent |-> ident, info |-> info]

isNotSpecified(a) == a[1].addrIdent = identNotSpecified
isSpecified(a) == ~isNotSpecified(a)

newUnspecifiedAddress == <<Part(identNotSpecified, <<>>)>>

newAbsoluteAddress(n) == <<Part(identSignedNbr, Itoa(n))>>

\* the position of the first occurrence of c in s at or after i, 0 if there is none
RECURSIVE IndexFrom(_, _, _)
IndexFrom(s, c, i) ==
    IF i > Len(s) THEN 0 ELSE IF s[i] = c THEN i ELSE IndexFrom(s, c, i + 1)

\* the end of the run of digits of s that starts at i (i - 1 if s[i] is no digit)
RECURSIVE DigitsEnd(_, _)
DigitsEnd(s, i) ==
    IF i <= Len(s) /\ s[i] \in Digits THEN DigitsEnd(s, i + 1) ELSE i - 1

\* addressRE anchored at position i of s: the matched part and the position
\* after it, or next = 0 when no alternative matches at i.  The alternatives
\* are tried in the order of the expression: a signed number before + and -.
MatchAt(s, i) ==
    LET c == s[i]
        sign == c \in {"+", "-"}
        dEnd == DigitsEnd(s, IF sign THEN i + 1 ELSE i)
        close == IndexFrom(s, c, i + 1)
    IN  IF c = "." THEN [part |-> Part(identDot, <<>>), next |-> i + 1]
        ELSE IF c = "$" THEN [part |-> Part(identDollar, <<>>), next |-> i + 1]
        ELSE IF c = "'" /\ i < Len(s) /\ s[i + 1] \in LowerCase
             THEN [part |-> Part(identMark, <<s[i + 1]>>), next |-> i + 2]
        ELSE IF c = "/" /\ close # 0
             THEN [part |-> Part(identRegexForward, SubSeq(s, i + 1, close - 1)), next |-> close + 1]
        ELSE IF c = "?" /\ close # 0
             THEN [part |-> Part(identRegexBackward, SubSeq(s, i + 1, close - 1)), next |-> close + 1]
        ELSE IF (sign \/ c \in Digits) /\ dEnd >= (IF sign THEN i + 1 ELSE i)
             THEN [part |-> Part(identSignedNbr, SubSeq(s, i, dEnd)), next |-> dEnd + 1]
        ELSE IF c = "+" THEN [part |-> Part(identInc, <<>>), next |-> i + 1]
        ELSE IF c = "-" THEN [part |-> Part(identDec, <<>>), next |-> i + 1]
        ELSE [part |-> Part(identNotSpecified, <<>>), next |-> 0]

\* the loop of newAddress: blanks between two matches are skipped, any other
\* skipped character is a syntax error (checkSkippedChars)
RECURSIVE Scan(_, _, _)
Scan(s, i, acc) ==
    IF i > Len(s) THEN [internal |-> acc, err |-> "none"]
    ELSE IF s[i] = " " THEN Scan(s, i + 1, acc)
    ELSE LET m == MatchAt(s, i)
         IN  IF m.next = 0 THEN [internal |-> acc, err |-> "syntax"]
             ELSE Scan(s, m.next, Append(acc, m.part))

newAddress(str) ==
    LET s == TrimSpace(str)
    IN  IF Len(s) = 0 THEN [internal |-> newUnspecifiedAddress, err |-> "none"]
        ELSE Scan(s, 1, <<>>)

\* _findLine: the element of line requiredLine; nil (0) for the line after the
\* last one; a panic for every other line number that is no line of the buffer
FindLinePanics(requiredLine, buffer) == requiredLine < 1 \/ requiredLine > Len(buffer) + 1
FindLine(requiredLine, buffer) == IF requiredLine = Len(buffer) + 1 THEN 0 ELSE requiredLine

\* the smallest / largest member of a non-empty set of integers
\* a faulty variant: the loop does not stop at its first match
SetMinMut(S) == CHOOSE x \in S : \A y \in S : x >= y
SetMin(S) == CHOOSE x \in S : \A y \in S : x <= y
SetMax(S) == CHOOSE x \in S : \A y \in S : x >= y

matchLineForward(startLine, re, buffer) ==
    IF FindLinePanics(startLine, buffer) THEN [line |-> 0 - 1, err |-> "panic"]
    ELSE IF FindLine(startLine, buffer) = 0 THEN [line |-> 0 - 1, err |-> "noMatch"]
    ELSE LET after == {n \in (startLine + 1)..Len(buffer) : MatchString(re, buffer[n])}
             wrapped == {n \in 1..startLine : MatchString(re, buffer[n])}
         IN  IF after # {} THEN [line |-> SetMin(after), err |-> "none"]
             ELSE IF wrapped # {} THEN [line |-> SetMin(wrapped), err |-> "none"]
             ELSE [line |-> 0 - 1, err |-> "noMatch"]

matchLineBackward(startLine, re, buffer) ==
    IF FindLinePanics(startLine, buffer) THEN [line |-> 0 - 1, err |-> "panic"]
    ELSE IF FindLine(startLine, buffer) = 0 THEN [line |-> 0 - 1, err |-> "noMatch"]
    ELSE LET before == {n \in 1..(startLine - 1) : MatchString(re, buffer[n])}
             wrapped == {n \in (startLine + 1)..Len(buffer) : MatchString(re, buffer[n])}
         IN  IF before # {} THEN [line |-> SetMax(before), err |-> "none"]
             ELSE IF wrapped # {} THEN [line |-> SetMax(wrapped), err |-> "none"]
             ELSE [line |-> 0 - 1, err |-> "noMatch"]

\* a faulty variant: every number is an absolute line number
SignedNbrMut(info, line, offset) == Atoi(info)
\* the case identSignedNbr of calculateActualLineNumber
SignedNbr(info, line, offset) ==
    IF offset THEN line + Atoi(info)
    ELSE IF info[1] \in {"+", "-"} THEN line + Atoi(info)
    ELSE Atoi(info)

\* one turn of the loop of calculateActualLineNumber; st = [line, offset, err]
FoldPart(p, st, buffer, mks) ==
    IF st.err # "none" THEN st
    ELSE IF p.addrIdent = identInc THEN [st EXCEPT !.line = @ + 1, !.offset = TRUE]
    ELSE IF p.addrIdent = identDec THEN [st EXCEPT !.line = @ - 1, !.offset = TRUE]
    ELSE IF p.addrIdent = identDollar THEN [st EXCEPT !.line = Len(buffer), !.offset = TRUE]
    ELSE IF p.addrIdent = identDot THEN [st EXCEPT !.offset = TRUE]
    ELSE IF p.addrIdent = identMark
         THEN IF HasMark(mks, p.info[1])
              THEN [st EXCEPT !.line = MarkLine(mks, p.info[1]), !.offset = TRUE]
              ELSE [st EXCEPT !.line = 0 - 1, !.err = "unknownMark"]
    ELSE IF p.addrIdent \in {identRegexForward, identRegexBackward}
         THEN LET Found(m) == IF m.err # "none" THEN [st EXCEPT !.line = 0 - 1, !.err = m.err]
                              ELSE [st EXCEPT !.line = m.line, !.offset = TRUE]
              IN  Found(IF p.addrIdent = identRegexForward
                        THEN matchLineForward(st.line, p.info, buffer)
                        ELSE matchLineBackward(st.line, p.info, buffer))
    ELSE IF p.addrIdent = identSignedNbr
         THEN [st EXCEPT !.line = SignedNbr(p.info, st.line, st.offset), !.offset = TRUE]
    ELSE [st EXCEPT !.line = 0 - 1, !.err = "notRecognised"]

RECURSIVE FoldParts(_, _, _, _, _)
FoldParts(parts, i, st, buffer, mks) ==
    IF i > Len(parts) THEN st
    ELSE FoldParts(parts, i + 1, FoldPart(parts[i], st, buffer, mks), buffer, mks)

\* the bounds check that ends calculateActualLineNumber
CheckLine(n, len) ==
    IF n < 0 \/ n > len THEN [line |-> 0 - 1, err |-> "invalidLine"]
    ELSE [line |-> n, err |-> "none"]

calculateActualLineNumber(addr, currentLineNbr, buffer, mks) ==
    LET Checked(st) == IF st.err # "none" THEN [line |-> 0 - 1, err |-> st.err]
                       ELSE CheckLine(st.line, Len(buffer))
    IN  IF isNotSpecified(addr) THEN [line |-> currentLineNbr, err |-> "none"]
        ELSE Checked(FoldParts(addr, 1,
                               [line |-> currentLineNbr, offset |-> FALSE, err |-> "none"],
                               buffer, mks))

----------------------------------------------------------------------------
(* Address ranges: addressrange.go *)

separatorComma == ","
separatorSemicolon == ";"

Range(start, end, sep) == [start |-> start, end |-> end, separator |-> sep, err |-> "none"]
RangeError(e) == [start |-> newUnspecifiedAddress, end |-> newUnspecifiedAddress,
                  separator |-> "", err |-> e]

\* the number of separators in s
RECURSIVE CountSeps(_)
CountSeps(s) ==
    IF s = <<>> THEN 0
    ELSE (IF s[1] \in {",", ";"} THEN 1 ELSE 0) + CountSeps(Tail(s))

\* the position of the first separator of s, Len(s) + 1 if there is none
RECURSIVE SepIndex(_, _)
SepIndex(s, i) ==
    IF i > Len(s) \/ s[i] \in {",", ";"} THEN i ELSE SepIndex(s, i + 1)

newRange(rangeStr) ==
    IF Len(TrimSpace(rangeStr)) = 0
    THEN Range(newUnspecifiedAddress, newUnspecifiedAddress, identComma)
    ELSE IF rangeStr = <<identDollar>>
    THEN Range(newAddress(rangeStr).internal, newAddress(rangeStr).internal, identComma)
    ELSE IF rangeStr = <<identComma>>
    THEN Range(newAddress(<<"1">>).internal, newAddress(<<identDollar>>).internal, identComma)
    ELSE IF rangeStr = <<identSemicolon>>
    THEN Range(newAddress(<<identDot>>).internal, newAddress(<<identDollar>>).internal, identComma)
    ELSE IF CountSeps(rangeStr) > 1 THEN RangeError("unrecognisedRange")
    ELSE LET k == SepIndex(rangeStr, 1)
             a1 == newAddress(SubSeq(rangeStr, 1, k - 1))
             a2 == newAddress(SubSeq(rangeStr, k + 1, Len(rangeStr)))
             sep == IF k <= Len(rangeStr) THEN rangeStr[k] ELSE ""
         IN  IF a1.err # "none" THEN RangeError("parseAddress1")
             ELSE IF a2.err # "none" THEN RangeError("parseAddress2")
             ELSE Range(a1.internal, a2.internal, sep)

IsSpecified(ra) == ~(isNotSpecified(ra.start) /\ isNotSpecified(ra.end))

\* a faulty variant: a first address left out is line 1 whatever the separator
DefaultStartLineMut(separator, currentLineNbr) == 1

\* special case 1 of calculateStartAndEndLineNumbers: the first address is left out
DefaultStartLine(separator, currentLineNbr) ==
    IF separator = separatorComma THEN 1
    ELSE IF separator = separatorSemicolon THEN currentLineNbr
    ELSE 0

\* a faulty variant: a range whose start is after its end is accepted
calculateStartAndEndLineNumbersMut(ra, currentLineNbr, buffer, mks) ==
    LET Lines(s, e) ==
            IF s.err = "panic" THEN [start |-> 0 - 1, end |-> 0 - 1, err |-> "panic"]
            ELSE IF s.err # "none"
                 THEN [start |-> 0 - 1, end |-> 0 - 1, err |-> "invalidStartOfRange"]
            ELSE IF e.err = "panic" THEN [start |-> 0 - 1, end |-> 0 - 1, err |-> "panic"]
            ELSE IF e.err # "none"
                 THEN [start |-> 0 - 1, end |-> 0 - 1, err |-> "invalidEndOfRange"]
            ELSE [start |-> s.line, end |-> e.line, err |-> "none"]
        WithStart(s) ==
            Lines(s, IF isNotSpecified(ra.end) THEN s
                     ELSE calculateActualLineNumber(ra.end, currentLineNbr, buffer, mks))
    IN  WithStart(IF isNotSpecified(ra.start)
                  THEN [line |-> DefaultStartLine(ra.separator, currentLineNbr),
                        err |-> "none"]
                  ELSE calculateActualLineNumber(ra.start, currentLineNbr, buffer, mks))

calculateStartAndEndLineNumbers(ra, currentLineNbr, buffer, mks) ==
    LET Lines(s, e) ==
            IF s.err = "panic" THEN [start |-> 0 - 1, end |-> 0 - 1, err |-> "panic"]
            ELSE IF s.err # "none"
                 THEN [start |-> 0 - 1, end |-> 0 - 1, err |-> "invalidStartOfRange"]
            ELSE IF e.err = "panic" THEN [start |-> 0 - 1, end |-> 0 - 1, err |-> "panic"]
            ELSE IF e.err # "none"
                 THEN [start |-> 0 - 1, end |-> 0 - 1, err |-> "invalidEndOfRange"]
            ELSE IF s.line >= 0 /\ e.line >= 0 /\ s.line > e.line
                 THEN [start |-> 0 - 1, end |-> 0 - 1, err |-> "badRange"]
            ELSE [start |-> s.line, end |-> e.line, err |-> "none"]
        WithStart(s) ==
            Lines(s, IF isNotSpecified(ra.end) THEN s
                     ELSE calculateActualLineNumber(ra.end, currentLineNbr, buffer, mks))
    IN  WithStart(IF isNotSpecified(ra.start)
                  THEN [line |-> DefaultStartLine(ra.separator, currentLineNbr),
                        err |-> "none"]
                  ELSE calculateActualLineNumber(ra.start, currentLineNbr, buffer, mks))

getAddressRange(ra, currentLineNbr, buffer, mks) ==
    IF ~IsSpecified(ra) THEN [start |-> currentLineNbr, end |-> currentLineNbr, err |-> "none"]
    ELSE calculateStartAndEndLineNumbers(ra, currentLineNbr, buffer, mks)

----------------------------------------------------------------------------
(* The editor state and its helpers: state.go, mark.go, cmd.go *)

commandAppend == "a"
commandChange == "c"
commandDelete == "d"
commandEdit == "e"
commandEditUnconditionally == "E"
commandInsert == "i"
commandMark == "k"
commandMove == "m"
commandPrint == "p"
commandUndo == "u"
internalCommandUndoMove == ")"
internalCommandUndoSubst == "("
commandSubstitute == "s"
commandJoin == "j"
commandPut == "x"
commandTransfer == "t"
commandYank == "y"
commandQuit == "q"
commandQuitUnconditionally == "Q"
commandWrite == "w"

\* a State as a value; err is what the running command will return
Fail(st, e) == [st EXCEPT !.err = e]

NewState ==
    [Buffer |-> <<>>, CutBuffer |-> <<>>, dotline |-> 0, marks |-> {}, lineNbr |-> 0,
     undo |-> <<>>, processingUndo |-> FALSE, changedSinceLastWrite |-> FALSE,
     lastSubstRE |-> <<>>, lastSubstReplacement |-> <<>>, err |-> "none"]

\* a Command; restOfCmd is the destination of m, the name of k, the lines of the file of e and E
Command(ra, c, rest) == [addrRange |-> ra, cmd |-> c, restOfCmd |-> rest, start |-> 0, end |-> 0]

moveToLine(requiredLine, st) ==
    IF st.err = "panic" THEN st
    ELSE IF FindLinePanics(requiredLine, st.Buffer) THEN Fail(st, "panic")
    ELSE [st EXCEPT !.dotline = FindLine(requiredLine, st.Buffer), !.lineNbr = requiredLine]

\* iterateLines: after moveToLine(startLineNbr) every line up to endLineNbr must
\* exist, el.Next() on nil is a panic
iterateLines(startLineNbr, endLineNbr, st) ==
    LET Iterate(m) ==
            IF m.err = "panic" THEN m
            ELSE IF startLineNbr <= endLineNbr /\ endLineNbr > Len(st.Buffer) THEN Fail(m, "panic")
            ELSE m
    IN  Iterate(moveToLine(startLineNbr, st))

deleteLines(startLineNbr, endLineNbr, st) ==
    LET Remove(m) ==
            IF m.err = "panic" \/ startLineNbr > endLineNbr THEN [st |-> m, newList |-> <<>>]
            ELSE [st |-> [m EXCEPT !.Buffer = SubSeq(@, 1, startLineNbr - 1)
                                                \o SubSeq(@, endLineNbr + 1, Len(@)),
                                   !.dotline = 0 - 1],
                  newList |-> SubSeq(st.Buffer, startLineNbr, endLineNbr)]
    IN  Remove(iterateLines(startLineNbr, endLineNbr, st))

\* a faulty variant: dot is left on the first of the new lines
appendLinesMut(n, st, newLines) ==
    IF st.err = "panic" \/ Len(newLines) = 0 THEN st
    ELSE moveToLine(n + 1, [st EXCEPT !.Buffer = SubSeq(@, 1, n) \o newLines
                                                 \o SubSeq(@, n + 1, Len(@))])

appendLines(n, st, newLines) ==
    IF st.err = "panic" \/ Len(newLines) = 0 THEN st
    ELSE IF n = Len(st.Buffer)
    THEN moveToLine(Len(st.Buffer) + Len(newLines), [st EXCEPT !.Buffer = @ \o newLines])
    ELSE IF n = 0
    THEN moveToLine(Len(newLines), [st EXCEPT !.Buffer = newLines \o @])
    ELSE LET InsertAfter(m) ==
                 IF m.err = "panic" THEN m
                 ELSE IF m.dotline = 0 THEN Fail(m, "panic")
                 ELSE moveToLine(n + Len(newLines),
                                 [m EXCEPT !.Buffer = SubSeq(@, 1, n) \o newLines
                                                      \o SubSeq(@, n + 1, Len(@))])
         IN  InsertAfter(moveToLine(n, st))

\* a faulty variant: the inverse command addresses the first line only
UndoRecordMut(start, end, command, text, origCmd) ==
    [cmd |-> Command(Range(newAbsoluteAddress(start), newAbsoluteAddress(start), separatorComma),
                     command, <<>>),
     text |-> text,
     originalCmd |-> origCmd.addrRange.start]

UndoRecord(start, end, command, text, origCmd) ==
    [cmd |-> Command(Range(newAbsoluteAddress(start), newAbsoluteAddress(end), separatorComma),
                     command, <<>>),
     text |-> text,
     originalCmd |-> origCmd.addrRange.start]

\* a faulty variant: an entry is pushed while an undo is replayed
addUndoMut(st, start, end, command, text, origCmd) ==
    IF st.err = "panic" THEN st
    ELSE [st EXCEPT !.undo = <<UndoRecord(start, end, command, text, origCmd)>> \o @]

addUndo(st, start, end, command, text, origCmd) ==
    IF st.processingUndo \/ st.err = "panic" THEN st
    ELSE [st EXCEPT !.undo = <<UndoRecord(start, end, command, text, origCmd)>> \o @]

addMark(mks, name, line) == {m \in mks : m[1] # name} \cup {<<name, line>>}

\* a faulty variant: marks between the moved lines and the destination keep their number
updateMarksMoveMut(startLine, endLine, destination, mks) ==
    {m \in mks : m[2] < startLine \/ m[2] > endLine}

updateMarksMove(startLine, endLine, destination, mks) ==
    LET n == endLine - startLine + 1
    IN  IF startLine > destination
        THEN {m \in mks : m[2] > endLine \/ m[2] <= destination}
             \cup {<<m[1], m[2] + n>> : m \in {k \in mks : k[2] > destination /\ k[2] < startLine}}
        ELSE {m \in mks : m[2] < startLine \/ m[2] > destination}
             \cup {<<m[1], m[2] - n>> : m \in {k \in mks : k[2] > endLine /\ k[2] <= destination}}

\* a faulty variant: marks after the deleted lines keep their number
updateMarksDeleteMut(startLine, endLine, mks) ==
    {m \in mks : m[2] < startLine \/ m[2] > endLine}

updateMarksDelete(startLine, endLine, mks) ==
    LET n == endLine - startLine + 1
    IN  {m \in mks : m[2] < startLine}
        \cup {<<m[1], m[2] - n>> : m \in {k \in mks : k[2] > endLine}}

updateMarks(cmdIdent, startLine, endLine, destination, mks) ==
    IF startLine > endLine THEN mks
    ELSE IF cmdIdent = commandDelete THEN updateMarksDelete(startLine, endLine, mks)
    ELSE IF cmdIdent = commandMove THEN updateMarksMove(startLine, endLine, destination, mks)
    ELSE mks

----------------------------------------------------------------------------
(* The commands: cmd.go *)

\* a faulty variant: an insert at line n puts the lines after line n
AppendInsertMut(cmd, st, inputLines) ==
    LET n == Len(inputLines)
        c == [st EXCEPT !.changedSinceLastWrite = TRUE]
    IN  IF n = 0 THEN st
        ELSE IF (cmd.cmd = commandAppend /\ cmd.start = 0)
                \/ (cmd.cmd = commandInsert /\ cmd.start <= 1)
        THEN addUndo(moveToLine(n, [c EXCEPT !.Buffer = inputLines \o @]),
                     1, n, commandDelete, inputLines, cmd)
        ELSE addUndo(appendLines(cmd.start, c, inputLines),
                     cmd.start + 1, cmd.start + n, commandDelete, inputLines, cmd)

AppendInsert(cmd, st, inputLines) ==
    LET n == Len(inputLines)
        c == [st EXCEPT !.changedSinceLastWrite = TRUE]
    IN  IF n = 0 THEN st
        ELSE IF (cmd.cmd = commandAppend /\ cmd.start = 0)
                \/ (cmd.cmd = commandInsert /\ cmd.start <= 1)
        THEN addUndo(moveToLine(n, [c EXCEPT !.Buffer = inputLines \o @]),
                     1, n, commandDelete, inputLines, cmd)
        ELSE IF cmd.cmd = commandInsert
        THEN addUndo(appendLines(cmd.start - 1, c, inputLines),
                     cmd.start, cmd.start + n - 1, commandDelete, inputLines, cmd)
        ELSE addUndo(appendLines(cmd.start, c, inputLines),
                     cmd.start + 1, cmd.start + n, commandDelete, inputLines, cmd)

\* a faulty variant: dot stays at start although that line is gone
DeleteDotMut(start, bufferLen) == start

\* the line Delete moves to when lines remain
DeleteDot(start, bufferLen) == IF start > bufferLen THEN bufferLen ELSE start

Delete(cmd, st, withUndo) ==
    LET Moved(s3, bufferLen) ==
            IF bufferLen = 0 THEN [s3 EXCEPT !.dotline = 0, !.lineNbr = 0]
            ELSE moveToLine(DeleteDot(cmd.start, bufferLen), s3)
        WithUndo(s2, newList, bufferLen) ==
            IF ~withUndo THEN s2
            ELSE IF cmd.start > bufferLen
            THEN addUndo(s2, endOfFile, endOfFile, commandAppend, newList, cmd)
            ELSE addUndo(s2, cmd.start, cmd.start, commandInsert, newList, cmd)
        Deleted(d) ==
            IF d.st.err = "panic" \/ Len(d.newList) = 0 THEN d.st
            ELSE Moved(WithUndo([d.st EXCEPT !.CutBuffer = d.newList,
                                             !.changedSinceLastWrite = TRUE,
                                             !.marks = updateMarks(commandDelete, cmd.start,
                                                                   cmd.end, 0 - 1, @)],
                                d.newList, Len(d.st.Buffer)),
                       Len(d.st.Buffer))
    IN  IF cmd.start = 0 THEN Fail(st, "invalidLine")
        ELSE Deleted(deleteLines(cmd.start, cmd.end, st))

\* a faulty variant: the new lines always go in front of line cmd.start, also
\* when the deleted range reached the last line
ChangeMut(cmd, st, inputLines) ==
    LET Appended(a, first) ==
            addUndo(a, first, first + Len(inputLines) - 1, commandChange, a.CutBuffer, cmd)
        Replaced(d) ==
            IF d.err # "none" THEN d
            ELSE Appended(appendLines(IF cmd.start > Len(d.Buffer) THEN Len(d.Buffer) - 1
                                      ELSE cmd.start - 1,
                                      [d EXCEPT !.changedSinceLastWrite = TRUE], inputLines),
                          cmd.start)
    IN  IF cmd.start = 0 THEN Fail(st, "invalidLine")
        ELSE IF Len(inputLines) = 0 THEN st
        ELSE Replaced(Delete([cmd EXCEPT !.cmd = commandDelete], st, FALSE))

Change(cmd, st, inputLines) ==
    LET Appended(a, first) ==
            addUndo(a, first, first + Len(inputLines) - 1, commandChange, a.CutBuffer, cmd)
        \* atEOF: the deleted range reached the last line, the new lines are appended
        Replaced(d) ==
            IF d.err # "none" THEN d
            ELSE IF cmd.start > Len(d.Buffer)
            THEN Appended(appendLines(Len(d.Buffer), [d EXCEPT !.changedSinceLastWrite = TRUE],
                                      inputLines),
                          Len(d.Buffer) + 1)
            ELSE Appended(appendLines(cmd.start - 1, [d EXCEPT !.changedSinceLastWrite = TRUE],
                                      inputLines),
                          cmd.start)
    IN  IF cmd.start = 0 THEN Fail(st, "invalidLine")
        ELSE IF Len(inputLines) = 0 THEN st
        ELSE Replaced(Delete([cmd EXCEPT !.cmd = commandDelete], st, FALSE))

\* the file was read into the lines cmd.restOfCmd
Edit(cmd, st) ==
    moveToLine(Len(cmd.restOfCmd),
               [st EXCEPT !.Buffer = cmd.restOfCmd, !.changedSinceLastWrite = FALSE,
                          !.undo = <<>>])

Mark(cmd, st) ==
    IF ~(Len(cmd.restOfCmd) = 1 /\ cmd.restOfCmd[1] \in LowerCase) THEN Fail(st, "badMarkname")
    ELSE IF isSpecified(cmd.addrRange.end) THEN Fail(st, "rangeMayNotBeSpecified")
    ELSE [st EXCEPT !.marks = addMark(@, cmd.restOfCmd[1], cmd.start)]

\* the destination of a move: the line number, or the error
MoveDestination(cmd, st) ==
    LET Line(r) ==
            IF r.err = "panic" THEN [line |-> 0, err |-> "panic"]
            ELSE IF r.err # "none" THEN [line |-> 0, err |-> "invalidDestination"]
            ELSE r
        Parsed(destLine) ==
            IF destLine.err # "none" THEN [line |-> 0, err |-> "invalidDestination"]
            ELSE Line(calculateActualLineNumber(destLine.internal, st.lineNbr, st.Buffer,
                                                st.marks))
        Dest(destStr) ==
            IF destStr = <<>> THEN [line |-> st.lineNbr, err |-> "none"]
            ELSE Parsed(newAddress(destStr))
    IN  Dest(TrimSpace(cmd.restOfCmd))

\* a faulty variant: a destination on the first moved line is accepted
DestinationInRangeMut(destLineNbr, startLineNbr, endLineNbr) ==
    destLineNbr > startLineNbr /\ destLineNbr < endLineNbr

\* the destination falls within the range of moved lines
DestinationInRange(destLineNbr, startLineNbr, endLineNbr) ==
    destLineNbr >= startLineNbr /\ destLineNbr < endLineNbr

\* a faulty variant: the destination is not adjusted
AdjustedDestinationMut(destLineNbr, startLineNbr, endLineNbr) == destLineNbr

\* the destination once the moved lines are out of the buffer
AdjustedDestination(destLineNbr, startLineNbr, endLineNbr) ==
    IF destLineNbr >= startLineNbr THEN destLineNbr - (endLineNbr - startLineNbr + 1)
    ELSE destLineNbr

Move(cmd, st) ==
    LET Finish(a) == IF a.err = "panic" THEN a ELSE [a EXCEPT !.changedSinceLastWrite = TRUE]
        \* destLineNbr: the destination once the moved lines are out of the buffer
        Insert(d, destLine, destLineNbr) ==
            IF d.st.err = "panic" \/ Len(d.newList) = 0 THEN d.st
            ELSE Finish(addUndo(appendLines(destLineNbr,
                                            [d.st EXCEPT !.marks =
                                                 updateMarks(commandMove, cmd.start, cmd.end,
                                                             destLine, @)],
                                            d.newList),
                                destLineNbr + 1, destLineNbr + Len(d.newList),
                                internalCommandUndoMove, d.newList, cmd))
        To(dest) ==
            IF dest.err # "none" THEN Fail(st, dest.err)
            ELSE IF cmd.start = 0 THEN Fail(st, "invalidLine")
            ELSE IF dest.line > Len(st.Buffer) THEN Fail(st, "invalidDestination")
            ELSE IF DestinationInRange(dest.line, cmd.start, cmd.end)
                 THEN Fail(st, "invalidDestination")
            ELSE Insert(deleteLines(cmd.start, cmd.end, st), dest.line,
                        AdjustedDestination(dest.line, cmd.start, cmd.end))
    IN  To(MoveDestination(cmd, st))

\* the command p and _printRange: nothing but dotline and lineNbr changes
CmdPrint(cmd, st) ==
    LET endLine == IF cmd.end = 0 THEN 1 ELSE cmd.end
        m == moveToLine(cmd.start, st)
    IN  IF cmd.start = 0 THEN Fail(st, "invalidLine")
        ELSE IF cmd.start > endLine THEN Fail(st, "panic")
        ELSE IF m.err = "panic" THEN m
        ELSE IF endLine > Len(st.Buffer) THEN Fail(m, "panic")
        ELSE [m EXCEPT !.dotline = IF endLine < Len(st.Buffer) THEN endLine + 1 ELSE endLine,
                       !.lineNbr = endLine]

\* the lines startLineNbr..endLineNbr as a new list; the state is at startLineNbr
copyLines(startLineNbr, endLineNbr, st) ==
    LET Copy(m) ==
            IF m.err = "panic" THEN [st |-> m, newList |-> <<>>]
            ELSE [st |-> m, newList |-> SubSeq(st.Buffer, startLineNbr, endLineNbr)]
    IN  Copy(iterateLines(startLineNbr, endLineNbr, st))

\* strings.Replace(line, "\n", " ", 1): the first newline becomes a space
ReplaceNewline(line) ==
    LET At == {i \in 1..Len(line) : line[i] = "\n"}
    IN  IF At = {} THEN line
        ELSE [line EXCEPT ![CHOOSE i \in At : \A j \in At : i <= j] = " "]

\* what joinFn has written to the strings.Builder after the lines given
RECURSIVE JoinBuilder(_)
JoinBuilder(lines) ==
    IF lines = <<>> THEN <<>>
    ELSE ReplaceNewline(Head(lines)) \o JoinBuilder(Tail(lines))

\* a faulty variant: the interior line terminators are dropped
JoinedLinesMut(sb) == SelectSeq(SubSeq(sb, 1, Len(sb) - 1), LAMBDA ch : ch # " ") \o <<"\n">>

\* joinedLines: the builder without its last character, and a newline
JoinedLines(sb) == SubSeq(sb, 1, Len(sb) - 1) \o <<"\n">>

Join(cmd, st) ==
    LET Joined(m, sb) ==
            IF m.err = "panic" THEN m
            ELSE IF Len(sb) = 0 THEN Fail(m, "panic")
            ELSE Change([cmd EXCEPT !.cmd = commandChange], m, <<JoinedLines(sb)>>)
        Iterated(c) == Joined(c.st, JoinBuilder(c.newList))
    IN  Iterated(copyLines(cmd.start, cmd.end, st))

\* a faulty variant: the lines are put after the resolved start also when no
\* address was given
PutMut(cmd, st) ==
    LET startLineNbr == cmd.start
        nbrLines == Len(st.CutBuffer)
        Changed(a) == IF a.err = "panic" THEN a ELSE [a EXCEPT !.changedSinceLastWrite = TRUE]
    IN  IF cmd.start = 0 THEN Fail(st, "invalidLine")
        ELSE IF cmd.start # cmd.end THEN Fail(st, "rangeMayNotBeSpecified")
        ELSE IF nbrLines = 0 THEN st
        ELSE addUndo(Changed(appendLines(startLineNbr, st, st.CutBuffer)),
                     startLineNbr + 1, startLineNbr + nbrLines, commandDelete, <<>>, cmd)

Put(cmd, st) ==
    LET startLineNbr == IF isNotSpecified(cmd.addrRange.start) THEN st.lineNbr ELSE cmd.start
        nbrLines == Len(st.CutBuffer)
        Changed(a) == IF a.err = "panic" THEN a ELSE [a EXCEPT !.changedSinceLastWrite = TRUE]
    IN  IF cmd.start = 0 THEN Fail(st, "invalidLine")
        ELSE IF cmd.start # cmd.end THEN Fail(st, "rangeMayNotBeSpecified")
        ELSE IF nbrLines = 0 THEN st
        ELSE addUndo(Changed(appendLines(startLineNbr, st, st.CutBuffer)),
                     startLineNbr + 1, startLineNbr + nbrLines, commandDelete, <<>>, cmd)

\* the destination of a transfer: the line number, or the error
TransferDestination(cmd, st) ==
    LET Parsed(destLine) ==
            IF destLine.err # "none" THEN [line |-> 0, err |-> "invalidDestination"]
            ELSE calculateActualLineNumber(destLine.internal, st.lineNbr, st.Buffer, st.marks)
        Dest(destStr) ==
            IF destStr = <<>> THEN [line |-> st.lineNbr, err |-> "none"]
            ELSE Parsed(newAddress(destStr))
    IN  Dest(TrimSpace(cmd.restOfCmd))

\* a faulty variant: a destination within the copied lines is rejected, as
\* Move rejects it
TransferMut(cmd, st) ==
    LET Changed(a) == IF a.err = "panic" THEN a ELSE [a EXCEPT !.changedSinceLastWrite = TRUE]
        Copied(c, destLineNbr) ==
            IF c.st.err = "panic" THEN c.st
            ELSE addUndo(Changed(appendLines(destLineNbr, c.st, c.newList)),
                         destLineNbr + 1, destLineNbr + Len(c.newList), commandDelete, <<>>,
                         cmd)
        To(r, dest) ==
            IF dest.err # "none" THEN Fail(st, dest.err)
            ELSE IF dest.line > Len(st.Buffer) THEN Fail(st, "invalidDestination")
            ELSE IF DestinationInRange(dest.line, r.start, r.end)
                 THEN Fail(st, "invalidDestination")
            ELSE Copied(copyLines(r.start, r.end, st), dest.line)
        From(r) ==
            IF r.err # "none" THEN Fail(st, r.err)
            ELSE To(r, TransferDestination(cmd, st))
    IN  From(getAddressRange(cmd.addrRange, st.lineNbr, st.Buffer, st.marks))

Transfer(cmd, st) ==
    LET Changed(a) == IF a.err = "panic" THEN a ELSE [a EXCEPT !.changedSinceLastWrite = TRUE]
        Copied(c, destLineNbr) ==
            IF c.st.err = "panic" THEN c.st
            ELSE addUndo(Changed(appendLines(destLineNbr, c.st, c.newList)),
                         destLineNbr + 1, destLineNbr + Len(c.newList), commandDelete, <<>>,
                         cmd)
        To(r, dest) ==
            IF dest.err # "none" THEN Fail(st, dest.err)
            ELSE IF dest.line > Len(st.Buffer) THEN Fail(st, "invalidDestination")
            ELSE Copied(copyLines(r.start, r.end, st), dest.line)
        From(r) ==
            IF r.err # "none" THEN Fail(st, r.err)
            ELSE To(r, TransferDestination(cmd, st))
    IN  From(getAddressRange(cmd.addrRange, st.lineNbr, st.Buffer, st.marks))

\* a faulty variant: the current line stays where the copy began
YankMut(cmd, st) ==
    LET Copied(c) ==
            IF c.st.err = "panic" THEN c.st
            ELSE [c.st EXCEPT !.CutBuffer = c.newList]
    IN  IF cmd.start = 0 THEN Fail(st, "invalidLine")
        ELSE Copied(copyLines(cmd.start, cmd.end, st))

Yank(cmd, st) ==
    LET Copied(c) ==
            IF c.st.err = "panic" THEN c.st
            ELSE moveToLine(st.lineNbr, [c.st EXCEPT !.CutBuffer = c.newList])
    IN  IF cmd.start = 0 THEN Fail(st, "invalidLine")
        ELSE Copied(copyLines(cmd.start, cmd.end, st))

resolveAddress(cmd, st) ==
    calculateStartAndEndLineNumbers(cmd.addrRange, st.lineNbr, st.Buffer, st.marks)

Resolved(cmd, r) == [cmd EXCEPT !.start = r.start, !.end = r.end]

----------------------------------------------------------------------------
(* The substitute command: regex.go *)

parseRegexCommand(regexCommand) ==
    LET Parsed(split) ==
            IF Len(split) # 4 \/ split[2] = <<>>
            THEN [re |-> <<>>, replacement |-> <<>>, suffixes |-> <<>>,
                  err |-> "syntaxMissingDelimiter"]
            ELSE [re |-> split[2], replacement |-> split[3], suffixes |-> split[4],
                  err |-> "none"]
    IN  Parsed(Split(regexCommand, regexCommand[1]))

\* the command of the undo of one substituted line: a change of the line nbr,
\* its address already resolved
SubstUndoCommand(nbr) ==
    [Command(Range(newAbsoluteAddress(nbr), newAbsoluteAddress(nbr), separatorComma),
             commandChange, <<>>)
        EXCEPT !.start = nbr, !.end = nbr]

\* the undoList of replaceLines: for each line matched, in the order of the
\* lines, the change that puts the line back
SubstUndoList(matched, buffer) ==
    [i \in 1..Len(matched) |->
        [cmd |-> SubstUndoCommand(matched[i]), text |-> <<buffer[matched[i]]>>,
         originalCmd |-> <<>>]]

\* the result is the state, the number of lines matched and the list of the undos
replaceLines(startLineNbr, endLineNbr, st, re, replacement) ==
    LET Matched(n) == MatchString(re, st.Buffer[n])
        Replaced(m) ==
            IF m.err = "panic" \/ \E n \in startLineNbr..endLineNbr : n \notin 1..Len(m.Buffer)
            THEN [st |-> Fail(m, "panic"), nbrLinesMatched |-> 0, undoList |-> <<>>]
            ELSE [st |-> [m EXCEPT !.Buffer =
                             [n \in 1..Len(@) |->
                                 IF n \in startLineNbr..endLineNbr /\ Matched(n)
                                 THEN ReplaceAllString(re, @[n], replacement) ELSE @[n]]],
                  nbrLinesMatched |-> Cardinality({n \in startLineNbr..endLineNbr : Matched(n)}),
                  undoList |->
                      SubstUndoList(SelectSeq([k \in 1..(endLineNbr - startLineNbr + 1) |->
                                                  startLineNbr + k - 1], Matched),
                                    st.Buffer)]
    IN  Replaced(moveToLine(startLineNbr, st))

processLines(startLineNbr, endLineNbr, st, reStr, replacement) ==
    replaceLines(startLineNbr, endLineNbr,
                 [st EXCEPT !.lastSubstRE = reStr, !.lastSubstReplacement = replacement],
                 reStr, replacement)

processLinesUsingPreviousSubst(startLineNbr, endLineNbr, st) ==
    IF st.lastSubstRE # <<>>
    THEN replaceLines(startLineNbr, endLineNbr, st, st.lastSubstRE, st.lastSubstReplacement)
    ELSE [st |-> Fail(st, "noPreviousRegex"), nbrLinesMatched |-> 0, undoList |-> <<>>]

CmdSubstitute(cmd, st) ==
    LET Finish(r) ==
            IF r.st.err # "none" THEN r.st
            ELSE IF r.nbrLinesMatched = 0 THEN Fail(r.st, "noSubstitutions")
            ELSE IF Len(r.undoList) # r.nbrLinesMatched THEN Fail(r.st, "panic")
            ELSE [addUndo(r.st, 1, 1, internalCommandUndoSubst, r.undoList, cmd)
                     EXCEPT !.changedSinceLastWrite = TRUE]
        WithCommand(ra, regexCommand, parsed) ==
            IF regexCommand # <<>>
            THEN IF parsed.err # "none" THEN Fail(st, parsed.err)
                 ELSE Finish(processLines(ra.start, ra.end, st, parsed.re, parsed.replacement))
            ELSE Finish(processLinesUsingPreviousSubst(ra.start, ra.end, st))
        InRange(ra, regexCommand) ==
            IF ra.err # "none" THEN Fail(st, ra.err)
            ELSE WithCommand(ra, regexCommand,
                             IF regexCommand # <<>> THEN parseRegexCommand(regexCommand)
                             ELSE [err |-> "none"])
    IN  InRange(getAddressRange(cmd.addrRange, st.lineNbr, st.Buffer, st.marks),
                TrimSpace(cmd.restOfCmd))

\* the commands an Undo record replays through ProcessCommand, and the switch
\* of ProcessCommand for them
Dispatch(cmd, st, enteredText) ==
    IF cmd.cmd \in {commandAppend, commandInsert} THEN AppendInsert(cmd, st, enteredText)
    ELSE IF cmd.cmd = commandChange THEN Change(cmd, st, enteredText)
    ELSE IF cmd.cmd = commandDelete THEN Delete(cmd, st, TRUE)
    ELSE IF cmd.cmd = commandEditUnconditionally THEN Edit(cmd, st)
    ELSE IF cmd.cmd = commandMark THEN Mark(cmd, st)
    ELSE IF cmd.cmd = commandMove THEN Move(cmd, st)
    ELSE IF cmd.cmd = commandPrint THEN CmdPrint(cmd, st)
    ELSE IF cmd.cmd = commandSubstitute THEN CmdSubstitute(cmd, st)
    ELSE st

\* the loop of handleUndoSubst: what Change returns is dropped
RECURSIVE ReplayChanges(_, _)
ReplayChanges(undoList, st) ==
    LET Dropped(r) == IF r.err = "panic" THEN r ELSE [r EXCEPT !.err = "none"]
    IN  IF undoList = <<>> \/ st.err = "panic" THEN st
        ELSE IF Head(undoList).cmd.cmd # commandChange THEN Fail(st, "panic")
        ELSE ReplayChanges(Tail(undoList),
                           Dropped(Change(Head(undoList).cmd, st, Head(undoList).text)))

\* a faulty variant: only the first change of the list is replayed
handleUndoSubstMut(toplevelUndoCmd, st) ==
    ReplayChanges(SubSeq(toplevelUndoCmd.text, 1, 1), st)

handleUndoSubst(toplevelUndoCmd, st) ==
    ReplayChanges(toplevelUndoCmd.text, st)

handleUndoMove(undoCmd, st) ==
    LET PutBack(d, os) ==
            IF os.err # "none" THEN Fail(d.st, os.err)
            ELSE appendLines(os.line - 1, d.st, undoCmd.text)
        Removed(d) ==
            IF d.st.err = "panic" THEN d.st
            ELSE PutBack(d, calculateActualLineNumber(undoCmd.originalCmd, d.st.lineNbr,
                                                  d.st.Buffer, d.st.marks))
        From(us) ==
            IF us.err # "none" THEN Fail(st, us.err)
            ELSE Removed(deleteLines(us.line, us.line, st))
    IN  From(calculateActualLineNumber(undoCmd.cmd.addrRange.start, st.lineNbr, st.Buffer,
                                       st.marks))

\* a faulty variant: an undo with nothing to undo is a command that does nothing
UndoMut(st) ==
    LET Done(r) == IF r.err = "panic" THEN r ELSE [r EXCEPT !.processingUndo = FALSE]
        ReplayAt(u, s1, ra) ==
            IF ra.err # "none" THEN Fail(s1, ra.err)
            ELSE Dispatch(Resolved(u.cmd, ra), s1, u.text)
        Replay(u, s1) ==
            IF u.cmd.cmd = internalCommandUndoMove THEN handleUndoMove(u, s1)
            ELSE IF u.cmd.cmd = internalCommandUndoSubst THEN handleUndoSubst(u, s1)
            ELSE ReplayAt(u, s1, resolveAddress(u.cmd, s1))
    IN  IF Len(st.undo) = 0 THEN st
        ELSE Done(Replay(Head(st.undo),
                         [st EXCEPT !.undo = Tail(@), !.processingUndo = TRUE]))

Undo(st) ==
    LET Done(r) == IF r.err = "panic" THEN r ELSE [r EXCEPT !.processingUndo = FALSE]
        ReplayAt(u, s1, ra) ==
            IF ra.err # "none" THEN Fail(s1, ra.err)
            ELSE Dispatch(Resolved(u.cmd, ra), s1, u.text)
        Replay(u, s1) ==
            IF u.cmd.cmd = internalCommandUndoMove THEN handleUndoMove(u, s1)
            ELSE IF u.cmd.cmd = internalCommandUndoSubst THEN handleUndoSubst(u, s1)
            ELSE ReplayAt(u, s1, resolveAddress(u.cmd, s1))
    IN  IF Len(st.undo) = 0 THEN Fail(st, "nothingToUndo")
        ELSE Done(Replay(Head(st.undo),
                         [st EXCEPT !.undo = Tail(@), !.processingUndo = TRUE]))

\* the files os.Create can create: WriteFile returns its error for any other
WritableFiles == {<<"f">>}

\* Write with a file name in restOfCmd: the whole buffer when no range is
\* given; WriteWriter reads el.Value of every line up to endLineNbr
Write(cmd, st) ==
    LET startLineNbr == IF ~IsSpecified(cmd.addrRange) THEN 1 ELSE cmd.start
        endLineNbr == IF ~IsSpecified(cmd.addrRange) THEN Len(st.Buffer) ELSE cmd.end
        Written(m) ==
            IF m.err = "panic" THEN m
            ELSE IF cmd.restOfCmd \notin WritableFiles THEN Fail(m, "writeFile")
            ELSE IF endLineNbr > Len(st.Buffer) THEN Fail(m, "panic")
            ELSE moveToLine(st.lineNbr, [m EXCEPT !.changedSinceLastWrite = FALSE])
    IN  IF cmd.restOfCmd = <<>> THEN Fail(st, "missingFilename")
        ELSE IF startLineNbr = 0 THEN Fail(st, "invalidLine")
        ELSE Written(moveToLine(startLineNbr, st))

\* the cases commandQuit and commandQuitUnconditionally: what ProcessCommand
\* returns as quit
Quits(cmd, st) ==
    /\ cmd.cmd \in {commandQuit, commandQuitUnconditionally}
    /\ ~(cmd.cmd = commandQuit /\ st.changedSinceLastWrite)

\* the check for the commands which cannot take ranges
RangeCheck(cmd) ==
    IF cmd.cmd \in {commandEdit, commandEditUnconditionally, commandUndo}
       /\ IsSpecified(cmd.addrRange)
    THEN "rangeMayNotBeSpecified" ELSE "none"

\* err holds the result of RangeCheck until "err = cmd.resolveAddress(state)"
\* assigns to it: from there on err is what resolveAddress returned
ProcessCommand(cmd, st, enteredText) ==
    LET Run(err) ==
            IF err.err # "none" THEN Fail(st, err.err)
            ELSE IF cmd.cmd = commandUndo THEN Undo(st)
            ELSE IF cmd.cmd = commandEdit
            THEN IF st.changedSinceLastWrite THEN Fail(st, err.err) ELSE Edit(cmd, st)
            ELSE IF cmd.cmd = commandJoin THEN Join(Resolved(cmd, err), st)
            ELSE IF cmd.cmd = commandPut THEN Put(Resolved(cmd, err), st)
            ELSE IF cmd.cmd = commandTransfer THEN Transfer(cmd, st)
            ELSE IF cmd.cmd = commandYank THEN Yank(Resolved(cmd, err), st)
            ELSE IF cmd.cmd = commandWrite THEN Write(Resolved(cmd, err), st)
            ELSE IF cmd.cmd \in {commandQuit, commandQuitUnconditionally} THEN st
            ELSE Dispatch(Resolved(cmd, err), st, enteredText)
        Resolve(err) == Run(resolveAddress(cmd, st))
    IN  Resolve(RangeCheck(cmd))

----------------------------------------------------------------------------
(* ParseCommand: one entered line becomes a Command *)

\* _commandRE
CommandLetters ==
    {"a", "c", "d", "e", "E", "f", "g", "G", "h", "i", "j", "k", "l", "m", "n", "p", "P",
     "q", "Q", "r", "s", "t", "u", "v", "V", "w", "W", "x", "y", "z", "#", "="}

\* (_simplifiedAddressRE)+ anchored at position i of s: the position after the
\* match.  The alternatives are tried in the order of the expression and the
\* rest of commandLineRE matches whatever follows, so the first alternative
\* that matches is the one taken.
RECURSIVE SimplifiedAddressEnd(_, _)
SimplifiedAddressEnd(s, i) ==
    IF i > Len(s) THEN i
    ELSE LET c == s[i]
             sign == c \in {"+", "-"}
             dEnd == DigitsEnd(s, IF sign THEN i + 1 ELSE i)
             close == IndexFrom(s, c, i + 1)
         IN  IF (sign \/ c \in Digits) /\ dEnd >= (IF sign THEN i + 1 ELSE i)
             THEN SimplifiedAddressEnd(s, dEnd + 1)
             ELSE IF c \in {".", "$", "+", "-"} THEN SimplifiedAddressEnd(s, i + 1)
             ELSE IF c = "'" /\ i < Len(s) /\ s[i + 1] \in LowerCase
             THEN SimplifiedAddressEnd(s, i + 2)
             ELSE IF c \in {"/", "?"} /\ close # 0 THEN SimplifiedAddressEnd(s, close + 1)
             ELSE IF c = " " THEN SimplifiedAddressEnd(s, i + 1)
             ELSE i

\* a faulty variant: a newline alone is p
ImplicitCommandMut(str) == IF TrimSpace(str) = <<>> THEN <<"p">> ELSE str
\* newline alone == +1p
ImplicitCommand(str) == IF TrimSpace(str) = <<>> THEN <<"+", "1", "p">> ELSE str

ParseCommand(str) ==
    LET Parsed(s) ==
            LET a1 == SimplifiedAddressEnd(s, 1)
                sep == IF a1 <= Len(s) /\ s[a1] \in {",", ";"} THEN a1 + 1 ELSE a1
                a2 == SimplifiedAddressEnd(s, sep)
                hasCmd == a2 <= Len(s) /\ s[a2] \in CommandLetters
                addrString == TrimSpace(SubSeq(s, 1, a2 - 1))
                restOfCmd == TrimSpace(SubSeq(s, IF hasCmd THEN a2 + 1 ELSE a2, Len(s)))
                Error(e) == [cmd |-> Command(newRange(<<>>), "", <<>>), err |-> e]
            IN  IF ~hasCmd /\ restOfCmd # <<>> /\ restOfCmd[1] \in {"/", "?"}
                THEN Error("couldNotParseCommand")
                ELSE IF newRange(addrString).err # "none" THEN Error("couldNotParseRange")
                ELSE IF ~hasCmd
                THEN IF restOfCmd # <<>> THEN Error("generalParseError")
                     ELSE [cmd |-> Command(newRange(addrString), commandPrint, <<>>),
                           err |-> "none"]
                ELSE [cmd |-> Command(newRange(addrString), s[a2], restOfCmd), err |-> "none"]
    IN  Parsed(ImplicitCommand(str))

----------------------------------------------------------------------------
(* Values of the observation variables before anything ran *)

NoLast == [cmd |-> "", start |-> 0, end |-> 0, dest |-> 0, given |-> FALSE, err |-> "none"]
NoPre == [set |-> FALSE, Buffer |-> <<>>, marks |-> {}, lineNbr |-> 0]
NoAddress == [internal |-> <<>>, err |-> "none"]
NoResolved == [line |-> 0, err |-> "none"]
NoRange == newRange(<<>>)
NoResolvedRange == [start |-> 0, end |-> 0, err |-> "none"]

----------------------------------------------------------------------------
(* The editor: one action per command, each a whole ProcessCommand *)

MarkNames == {<<"a">>}

\* the address ranges entered: none, one address, "," and the pairs m,n with m < n
LineNumbers == {Itoa(n) : n \in 1..MaxLines}
RangeStrs ==
    {<<>>, <<identDot>>, <<identDollar>>, <<identComma>>, <<"0">>} \cup LineNumbers
    \cup {Itoa(m) \o <<identComma>> \o Itoa(n) : m \in 1..MaxLines, n \in 2..MaxLines}
Ranges == {newRange(str) : str \in RangeStrs}

\* the address ranges entered for p, which is there to move the current line
PrintRanges == {newRange(str) : str \in LineNumbers}

\* the destinations of m
DestStrs == {<<>>, <<"0">>} \cup LineNumbers

\* the lines entered for a, i and c: nothing, one line, two lines
InputLines == {<<>>, <<Lx>>, <<Lx, Ly>>}

\* the files of e and E: the first n lines of a file of distinct lines
FileLetters == <<"a", "b", "c", "d", "e">>
File(n) == [i \in 1..n |-> <<FileLetters[i], "\n">>]
Files == {File(n) : n \in 0..MaxLines}

EdState ==
    [Buffer |-> Buffer, CutBuffer |-> CutBuffer, dotline |-> dotline, marks |-> marks,
     lineNbr |-> lineNbr, undo |-> undo, processingUndo |-> processingUndo,
     changedSinceLastWrite |-> changedSinceLastWrite, lastSubstRE |-> lastSubstRE,
     lastSubstReplacement |-> lastSubstReplacement, err |-> "none"]

Init ==
    /\ Buffer = NewState.Buffer
    /\ CutBuffer = NewState.CutBuffer
    /\ dotline = NewState.dotline
    /\ marks = NewState.marks
    /\ lineNbr = NewState.lineNbr
    /\ undo = NewState.undo
    /\ processingUndo = NewState.processingUndo
    /\ changedSinceLastWrite = NewState.changedSinceLastWrite
    /\ lastSubstRE = NewState.lastSubstRE
    /\ lastSubstReplacement = NewState.lastSubstReplacement
    /\ last = NoLast
    /\ pre = NoPre
    /\ addrStr = <<>>
    /\ address = NoAddress
    /\ resolved = NoResolved
    /\ addrRange = NoRange
    /\ resolvedRange = NoResolvedRange
    /\ pc = "ed"

\* what is recorded of the command that ran: its resolved range and destination
LastOf(cmd, st, r) ==
    LET Seen(ra, dest) ==
            [cmd |-> cmd.cmd,
             start |-> IF ra.err = "none" THEN ra.start ELSE 0,
             end |-> IF ra.err = "none" THEN ra.end ELSE 0,
             dest |-> IF cmd.cmd \in {commandMove, commandTransfer} /\ ra.err = "none"
                         /\ dest.err = "none"
                      THEN dest.line ELSE 0,
             given |-> IsSpecified(cmd.addrRange),
             err |-> r.err]
    IN  Seen(resolveAddress(cmd, st),
             IF cmd.cmd = commandTransfer THEN TransferDestination(cmd, st)
             ELSE MoveDestination(cmd, st))

\* the main loop reads the next command: a panic has ended the program
Running == pc = "ed" /\ last.err # "panic"

\* one command line: the whole of ProcessCommand, while the buffer holds no
\* more than maxLines lines and the undo stack no more than maxUndo entries
StepBounded(cmd, enteredText, maxUndo, maxLines) ==
    /\ cmd.addrRange.err = "none"
    /\ \E r \in {ProcessCommand(cmd, EdState, enteredText)} :
           /\ Len(r.Buffer) <= maxLines
           /\ Len(r.undo) <= maxUndo
           /\ Buffer' = r.Buffer
           /\ CutBuffer' = r.CutBuffer
           /\ dotline' = r.dotline
           /\ marks' = r.marks
           /\ lineNbr' = r.lineNbr
           /\ undo' = r.undo
           /\ processingUndo' = r.processingUndo
           /\ changedSinceLastWrite' = r.changedSinceLastWrite
           /\ lastSubstRE' = r.lastSubstRE
           /\ lastSubstReplacement' = r.lastSubstReplacement
           /\ last' = LastOf(cmd, EdState, r)
           /\ pre' = IF r.err = "none" /\ Len(r.undo) > Len(undo)
                     THEN [set |-> TRUE, Buffer |-> Buffer, marks |-> marks, lineNbr |-> lineNbr]
                     ELSE NoPre
    /\ pc' = IF Quits(cmd, EdState) /\ resolveAddress(cmd, EdState).err = "none"
             THEN "quit" ELSE pc
    /\ UNCHANGED <<addrStr, address, resolved, addrRange, resolvedRange>>

StepWithin(cmd, enteredText, maxUndo) == StepBounded(cmd, enteredText, maxUndo, MaxLines)

Step(cmd, enteredText) == StepWithin(cmd, enteredText, MaxUndo)

CmdAppend ==
    /\ Running
    /\ \E ra \in Ranges, t \in InputLines :
           Step(Command(ra, commandAppend, <<>>), t)
CmdInsert ==
    /\ Running
    /\ \E ra \in Ranges, t \in InputLines :
           Step(Command(ra, commandInsert, <<>>), t)
CmdChange ==
    /\ Running
    /\ \E ra \in Ranges, t \in InputLines :
           Step(Command(ra, commandChange, <<>>), t)
CmdDelete ==
    /\ Running
    /\ \E ra \in Ranges :
           Step(Command(ra, commandDelete, <<>>), <<>>)
CmdEdit ==
    /\ Running
    /\ \E c \in {commandEdit, commandEditUnconditionally}, f \in Files :
           Step(Command(newRange(<<>>), c, f), <<>>)
CmdMark ==
    /\ Running
    /\ \E ra \in Ranges, n \in MarkNames :
           Step(Command(ra, commandMark, n), <<>>)
CmdMove ==
    /\ Running
    /\ \E ra \in Ranges, d \in DestStrs :
           Step(Command(ra, commandMove, d), <<>>)
CmdPrintLines ==
    /\ Running
    /\ \E ra \in PrintRanges :
           Step(Command(ra, commandPrint, <<>>), <<>>)
\* what follows the s: a substitution of one line's text, one of every line's
\* text, one without its replacement, and nothing (the last substitution again)
SubstCommands ==
    {<<"/", "a", "/", "x", "/">>, <<"/", ".", "/", "x", "/">>, <<"/", "a", "/", "x">>, <<>>}

CmdSubst ==
    /\ Running
    /\ \E ra \in Ranges, c \in SubstCommands :
           Step(Command(ra, commandSubstitute, c), <<>>)

CmdUndo ==
    /\ Running
    /\ Step(Command(newRange(<<>>), commandUndo, <<>>), <<>>)

CmdJoin ==
    /\ Running
    /\ \E ra \in Ranges :
           Step(Command(ra, commandJoin, <<>>), <<>>)

CmdPut ==
    /\ Running
    /\ \E ra \in Ranges :
           Step(Command(ra, commandPut, <<>>), <<>>)

\* a transfer of every line of a buffer of MaxLines lines doubles the buffer
CmdTransfer ==
    /\ Running
    /\ \E ra \in Ranges, d \in DestStrs :
           StepBounded(Command(ra, commandTransfer, d), <<>>, MaxUndo, 2 * MaxLines)

CmdYank ==
    /\ Running
    /\ \E ra \in Ranges :
           Step(Command(ra, commandYank, <<>>), <<>>)

\* e, E and u entered with an address or a range in front
CmdWithAddress ==
    /\ Running
    /\ \E ra \in {r \in Ranges : IsSpecified(r)},
          c \in {commandEdit, commandEditUnconditionally, commandUndo}, f \in Files :
           Step(Command(ra, c, IF c = commandUndo THEN <<>> ELSE f), <<>>)

\* the lines entered at the prompt of the main loop: nothing, blanks, addresses
\* alone, p and d with and without an address, a move, puts, transfers, u,
\* w with a file that can be written and with one that cannot, q and Q
EnteredLines ==
    {<<>>, <<" ">>, <<"1">>, <<"2">>, <<"3">>, <<"+", "1">>, <<"-">>, <<"$">>, <<".">>,
     <<"1", ",", "2">>, <<"2", " ">>, <<"p">>, <<"+", "1", "p">>, <<"2", "p">>, <<"d">>,
     <<"1", "m", "2">>, <<"x">>, <<"1", "x">>, <<"1", "t", "0">>, <<"$", "t">>, <<"u">>, <<"w", " ", "f">>, <<"1", "w", " ", "/">>, <<"q">>, <<"Q">>}

\* one turn of mainloop: the line is parsed and, when it parses, processed
CmdLine ==
    /\ Running
    /\ \E str \in EnteredLines :
           /\ ParseCommand(str).err = "none"
           /\ Step(ParseCommand(str).cmd, <<>>)

Next ==
    \/ CmdLine
    \/ CmdJoin
    \/ CmdPut
    \/ CmdTransfer
    \/ CmdYank
    \/ CmdWithAddress
    \/ CmdSubst
    \/ CmdAppend
    \/ CmdInsert
    \/ CmdChange
    \/ CmdDelete
    \/ CmdEdit
    \/ CmdMark
    \/ CmdMove
    \/ CmdPrintLines
    \/ CmdUndo

Spec == Init /\ [][Next]_vars

\* the editor restricted to loading a file, marking, deleting and undoing
NextDelete ==
    \/ CmdEdit
    \/ CmdMark
    \/ CmdDelete
    \/ CmdPrintLines
    \/ CmdUndo

SpecDelete == Init /\ [][NextDelete]_vars

\* the editor restricted to loading a file, marking and moving
NextMove ==
    \/ CmdEdit
    \/ CmdMark
    \/ CmdMove

SpecMove == Init /\ [][NextMove]_vars

\* the editor restricted to loading a file, moving and undoing
NextMoveUndo ==
    \/ CmdEdit
    \/ CmdMove
    \/ CmdUndo

SpecMoveUndo == Init /\ [][NextMoveUndo]_vars

\* the commands that push onto a stack of up to MaxUndoDeep entries
CmdDeleteDeep ==
    /\ Running
    /\ \E ra \in Ranges :
           StepWithin(Command(ra, commandDelete, <<>>), <<>>, MaxUndoDeep)

CmdUndoDeep ==
    /\ Running
    /\ StepWithin(Command(newRange(<<>>), commandUndo, <<>>), <<>>, MaxUndoDeep)

\* the editor restricted to loading a file, deleting and undoing, with an
\* undo stack of several entries
NextUndo ==
    \/ CmdEdit
    \/ CmdDeleteDeep
    \/ CmdUndoDeep

SpecUndo == Init /\ [][NextUndo]_vars

\* the editor restricted to loading a file, substituting and undoing
NextSubst ==
    \/ CmdEdit
    \/ CmdSubst
    \/ CmdUndo

SpecSubst == Init /\ [][NextSubst]_vars

\* the editor restricted to loading a file, joining lines and undoing
NextJoin ==
    \/ CmdEdit
    \/ CmdJoin
    \/ CmdPrintLines
    \/ CmdUndo

SpecJoin == Init /\ [][NextJoin]_vars

\* the editor restricted to loading a file, yanking and putting
NextPut ==
    \/ CmdEdit
    \/ CmdPrintLines
    \/ CmdPut
    \/ CmdYank

SpecPut == Init /\ [][NextPut]_vars

\* the editor restricted to loading a file and transferring lines
NextTransfer ==
    \/ CmdEdit
    \/ CmdPrintLines
    \/ CmdTransfer

SpecTransfer == Init /\ [][NextTransfer]_vars

\* the editor restricted to loading a file, appending and inserting
NextAppend ==
    \/ CmdEdit
    \/ CmdAppend
    \/ CmdInsert
    \/ CmdPrintLines

SpecAppend == Init /\ [][NextAppend]_vars

\* the editor restricted to loading a file, deleting, undoing, and e, E and u
\* with an address in front
NextWithAddress ==
    \/ CmdEdit
    \/ CmdDelete
    \/ CmdUndo
    \/ CmdWithAddress

SpecWithAddress == Init /\ [][NextWithAddress]_vars

\* the editor restricted to loading a file and to the lines of the main loop
NextLine ==
    \/ CmdEdit
    \/ CmdLine

SpecLine == Init /\ [][NextLine]_vars

\* the editor restricted to loading a file, changing lines and undoing
NextChange ==
    \/ CmdEdit
    \/ CmdChange
    \/ CmdPrintLines
    \/ CmdUndo

SpecChange == Init /\ [][NextChange]_vars

----------------------------------------------------------------------------
(* Address resolution on its own: newAddress, then calculateActualLineNumber *)


AddrChars == {".", "$", "+", "-", "1", "0", "'", "a", "/", "?", " "}
AddrStrings == UNION {[1..n -> AddrChars] : n \in 0..MaxAddrLen}
AddrLens == (0..MaxAddrN) \cup {BigAddrN}
\* one line holding "a", at line 2, in a buffer of lines holding "b"
AddrBuffer(n) == [i \in 1..n |-> IF i = 2 THEN La ELSE Lb]
AddrMarks == {{}, {<<"a", 1>>}}

\* the searches of the address are for text without metacharacters (see MatchString)
LiteralSearches(parts) ==
    \A i \in 1..Len(parts) :
        parts[i].addrIdent \in {identRegexForward, identRegexBackward}
            => \A j \in 1..Len(parts[i].info) : parts[i].info[j] \in LowerCase \cup Digits \cup {" "}

InitAddr ==
    /\ \E n \in AddrLens :
          /\ Buffer = AddrBuffer(n)
          /\ lineNbr \in (IF n = 0 THEN {0} ELSE 1..n)
          /\ marks \in (IF n = 0 THEN {{}} ELSE AddrMarks)
    /\ dotline = lineNbr
    /\ CutBuffer = <<>>
    /\ undo = <<>>
    /\ processingUndo = FALSE
    /\ changedSinceLastWrite = FALSE
    /\ lastSubstRE = <<>>
    /\ lastSubstReplacement = <<>>
    /\ last = NoLast
    /\ pre = NoPre
    /\ addrStr \in AddrStrings
    /\ LiteralSearches(newAddress(addrStr).internal)
    /\ address = NoAddress
    /\ resolved = NoResolved
    /\ addrRange = NoRange
    /\ resolvedRange = NoResolvedRange
    /\ pc = "input"

NewAddressStep ==
    /\ pc = "input"
    /\ address' = newAddress(addrStr)
    /\ pc' = "parsed"
    /\ UNCHANGED <<edVars, addrStr, resolved, addrRange, resolvedRange>>

CalculateStep ==
    /\ pc = "parsed"
    /\ address.err = "none"
    /\ resolved' = calculateActualLineNumber(address.internal, lineNbr, Buffer, marks)
    /\ pc' = "resolved"
    /\ UNCHANGED <<edVars, addrStr, address, addrRange, resolvedRange>>

NextAddr == NewAddressStep \/ CalculateStep

SpecAddr == InitAddr /\ [][NextAddr]_vars

\* the resolution of a search address: every buffer of up to MaxSearchLines
\* lines holding "a" or "b", every current line, a search forward and one
\* backward for "a"
SearchBuffers == UNION {[1..n -> {La, Lb}] : n \in 1..MaxSearchLines}

InitSearch ==
    /\ Buffer \in SearchBuffers
    /\ lineNbr \in 1..Len(Buffer)
    /\ marks = {}
    /\ dotline = lineNbr
    /\ CutBuffer = <<>>
    /\ undo = <<>>
    /\ processingUndo = FALSE
    /\ changedSinceLastWrite = FALSE
    /\ lastSubstRE = <<>>
    /\ lastSubstReplacement = <<>>
    /\ last = NoLast
    /\ pre = NoPre
    /\ addrStr \in {<<identRegexForward, "a", identRegexForward>>,
                    <<identRegexBackward, "a", identRegexBackward>>}
    /\ address = NoAddress
    /\ resolved = NoResolved
    /\ addrRange = NoRange
    /\ resolvedRange = NoResolvedRange
    /\ pc = "input"

SpecSearch == InitSearch /\ [][NextAddr]_vars

----------------------------------------------------------------------------
(* The resolution of one address range: newRange, then
   calculateStartAndEndLineNumbers against a buffer, a current line and marks *)

\* the addresses of a range: none, line numbers, the current and the last
\* line, offsets, a search and a mark
RangeAddrs ==
    {<<>>, <<"0">>, <<"1">>, <<"2">>, <<"3">>, <<identDot>>, <<identDollar>>, <<identInc>>,
     <<identDec>>, <<identInc, "1">>, <<"/", "a", "/">>, <<"'", "a">>}
RangeStrings ==
    RangeAddrs \cup {a1 \o <<sep>> \o a2 : a1 \in RangeAddrs, a2 \in RangeAddrs,
                                           sep \in {separatorComma, separatorSemicolon}}

InitRange ==
    /\ \E n \in AddrLens :
          /\ Buffer = AddrBuffer(n)
          /\ lineNbr \in (IF n = 0 THEN {0} ELSE 1..n)
          /\ marks \in (IF n = 0 THEN {{}} ELSE AddrMarks)
    /\ dotline = lineNbr
    /\ CutBuffer = <<>>
    /\ undo = <<>>
    /\ processingUndo = FALSE
    /\ changedSinceLastWrite = FALSE
    /\ lastSubstRE = <<>>
    /\ lastSubstReplacement = <<>>
    /\ last = NoLast
    /\ pre = NoPre
    /\ addrStr \in RangeStrings
    /\ address = NoAddress
    /\ resolved = NoResolved
    /\ addrRange = NoRange
    /\ resolvedRange = NoResolvedRange
    /\ pc = "input"

NewRangeStep ==
    /\ pc = "input"
    /\ addrRange' = newRange(addrStr)
    /\ pc' = "parsed"
    /\ UNCHANGED <<edVars, addrStr, address, resolved, resolvedRange>>

CalculateRangeStep ==
    /\ pc = "parsed"
    /\ addrRange.err = "none"
    /\ resolvedRange' = calculateStartAndEndLineNumbers(addrRange, lineNbr, Buffer, marks)
    /\ pc' = "resolved"
    /\ UNCHANGED <<edVars, addrStr, address, resolved, addrRange>>

NextRange == NewRangeStep \/ CalculateRangeStep

SpecRange == InitRange /\ [][NextRange]_vars

----------------------------------------------------------------------------
(* Claims about address resolution, checked under SpecAddr *)

ArithIdents == {identInc, identDec, identDot, identSignedNbr}

\* what a part adds to the running line when it is taken as an offset
PartDelta(p) ==
    IF p.addrIdent = identInc THEN 1
    ELSE IF p.addrIdent = identDec THEN 0 - 1
    ELSE IF p.addrIdent = identDot THEN 0
    ELSE Atoi(p.info)

RECURSIVE SumDeltas(_, _)
SumDeltas(parts, i) ==
    IF i > Len(parts) THEN 0 ELSE PartDelta(parts[i]) + SumDeltas(parts, i + 1)

IsNumber(p) == p.addrIdent = identSignedNbr
IsUnsignedNumber(p) == IsNumber(p) /\ p.info[1] \in Digits

\* the line an address of ., +, - and numbers stands for, by the rule of the claim:
\* an unsigned number in first place sets the line, everything else is added
ArithmeticLine(parts, cur) ==
    IF IsUnsignedNumber(parts[1]) THEN Atoi(parts[1].info) + SumDeltas(parts, 2)
    ELSE cur + SumDeltas(parts, 1)

\* the result of resolution for the line the atoms add up to
ResultFor(line) ==
    IF line >= 0 /\ line <= Len(Buffer) THEN resolved = [line |-> line, err |-> "none"]
    ELSE resolved.err = "invalidLine"

\* C1: a number atom is absolute only when it is the first atom of the address
\* and carries no sign; a signed number, and every number that follows another
\* atom (., $, +, -, a mark, a search, an earlier number), is added to the
\* running line
C1_NumberAtoms ==
    (pc = "resolved") =>
        LET parts == address.internal
            k == Len(parts)
            before == FoldParts(SubSeq(parts, 1, k - 1), 1,
                                [line |-> lineNbr, offset |-> FALSE, err |-> "none"],
                                Buffer, marks)
        IN  /\ (\A i \in 1..k : parts[i].addrIdent \in ArithIdents)
                => ResultFor(ArithmeticLine(parts, lineNbr))
            /\ (k >= 2 /\ IsNumber(parts[k]) /\ before.err = "none")
                => ResultFor(before.line + Atoi(parts[k].info))
            /\ (k = 1 /\ IsUnsignedNumber(parts[1])) => ResultFor(Atoi(parts[1].info))
            /\ (k = 1 /\ IsNumber(parts[1]) /\ ~IsUnsignedNumber(parts[1]))
                => ResultFor(lineNbr + Atoi(parts[1].info))

\* -10 from line 10 is one atom and resolves to line 0
C1_Witness ==
    /\ pc = "resolved"
    /\ addrStr = <<"-", "1", "0">>
    /\ lineNbr = 10
    /\ resolved = [line |-> 0, err |-> "none"]

\* C2: resolution ends with a line number between 0 and the last line, or with
\* an error; a line below 0 or above the last line is an error and never clamped
C2_LineOrError ==
    (pc = "resolved") =>
        \/ resolved.err = "none" /\ resolved.line >= 0 /\ resolved.line <= Len(Buffer)
        \/ resolved.err \in {"invalidLine", "unknownMark", "noMatch", "notRecognised"}

----------------------------------------------------------------------------
(* Claims about delete, marks and undo, checked under SpecDelete *)

EditingCommands ==
    {commandAppend, commandInsert, commandChange, commandDelete, commandMove,
     commandMark, commandPrint}

\* C3: a command entered with no address range acts on the current line: the
\* range resolved for it is (c, c), c the current line number
C3_EmptyRangeIsDot ==
    [][(last'.cmd \in EditingCommands /\ ~last'.given /\ lineNbr >= 1)
        => (last'.start = lineNbr /\ last'.end = lineNbr)]_vars

\* C4: a successful delete of the lines s..e removes exactly those lines, keeps
\* the order of the others, makes the removed lines the cut buffer, and sets
\* the current line to s if there still is a line s, else to the new last line,
\* and to 0 when no line is left
C4_Delete ==
    [][(last'.cmd = commandDelete /\ last'.err = "none")
        => LET s == last'.start
               e == last'.end
               N == Len(Buffer)
           IN  /\ 1 <= s /\ s <= e /\ e <= N
               /\ Len(Buffer') = N - (e - s + 1)
               /\ \A n \in 1..(s - 1) : Buffer'[n] = Buffer[n]
               /\ \A n \in (e + 1)..N : Buffer'[n - (e - s + 1)] = Buffer[n]
               /\ Len(CutBuffer') = e - s + 1
               /\ \A n \in s..e : CutBuffer'[n - s + 1] = Buffer[n]
               /\ changedSinceLastWrite'
               /\ lineNbr' = (IF Len(Buffer') = 0 THEN 0
                              ELSE IF s <= Len(Buffer') THEN s ELSE Len(Buffer'))
               /\ dotline' = lineNbr']_vars

\* 2,3d on three lines: the range reached the end, dot is the new last line
C4_Witness ==
    /\ last.cmd = commandDelete /\ last.err = "none"
    /\ last.start = 2 /\ last.end = 3
    /\ Buffer = File(1)
    /\ CutBuffer = <<File(3)[2], File(3)[3]>>
    /\ lineNbr = 1 /\ dotline = 1

\* C5: after a delete of the lines s..e every mark on a line of s..e is gone,
\* every mark on a line after e is e-s+1 lower, every mark before s is as it was
C5_MarksAfterDelete ==
    [][(last'.cmd = commandDelete /\ last'.err = "none")
        => LET s == last'.start
               e == last'.end
           IN  /\ \A m \in marks :
                    /\ (m[2] >= s /\ m[2] <= e) => ~HasMark(marks', m[1])
                    /\ m[2] > e => <<m[1], m[2] - (e - s + 1)>> \in marks'
                    /\ m[2] < s => m \in marks'
               /\ \A m \in marks' : HasMark(marks, m[1])
               /\ Cardinality(marks') <= Cardinality(marks)]_vars

\* mark a on line 3, 1d: mark a is on line 2
C5_Witness ==
    /\ last.cmd = commandDelete /\ last.err = "none"
    /\ last.start = 1 /\ last.end = 1
    /\ pre.set /\ pre.marks = {<<"a", 3>>}
    /\ marks = {<<"a", 2>>}

\* C7: every mark is on a line of the buffer, 1..N
C7_MarksInBuffer ==
    \A m \in marks : m[2] >= 1 /\ m[2] <= Len(Buffer)

\* C8: a delete and then an undo give back the buffer as it was before the delete
C8_UndoDeleteRestoresBuffer ==
    [][(last.cmd = commandDelete /\ last.err = "none" /\ pre.set /\ last'.cmd = commandUndo)
        => (last'.err = "none" /\ Buffer' = pre.Buffer)]_vars

\* C9: a delete and then an undo give back every mark as it was before the
\* delete (looked at where the undo gave back the buffer)
C9_UndoDeleteRestoresMarks ==
    [][(/\ last.cmd = commandDelete /\ last.err = "none" /\ pre.set
        /\ last'.cmd = commandUndo /\ last'.err = "none" /\ Buffer' = pre.Buffer)
        => marks' = pre.marks]_vars

\* C16: an undo on an empty undo stack returns the nothing to undo error, and
\* the buffer, the current line, the marks, the cut buffer and the undo stack
\* are as they were
C16_NothingToUndo ==
    [][(last'.cmd = commandUndo /\ undo = <<>>)
        => (/\ last'.err = "nothingToUndo"
            /\ UNCHANGED <<Buffer, dotline, lineNbr, marks, CutBuffer, undo>>)]_vars

\* u on a file just loaded and marked
C16_Witness ==
    /\ last.cmd = commandUndo /\ last.err = "nothingToUndo"
    /\ Buffer = File(3)
    /\ marks # {}
    /\ undo = <<>>

\* C17: a command that returns an error leaves the lines of the buffer, the
\* marks and the undo stack as they were
C17_ErrorChangesNothing ==
    [][(last'.err \notin {"none", "panic"}) => UNCHANGED <<Buffer, marks, undo>>]_vars

\* C18: no command ends in a panic: ProcessCommand returns, with or without
\* an error
C18_NoPanic == last.err # "panic"

----------------------------------------------------------------------------
(* Claims about move and marks, checked under SpecMove *)

\* C6: after a move of the lines s..e to after line d the marks on s..e are
\* gone; the marks on the lines between the block and the destination are
\* shifted by the length of the block (down, line d included, when the block
\* moves towards the end; up, line d excluded, when it moves towards the
\* start) and name the same text as before; every other mark is as it was
C6_MarksAfterMove ==
    [][(last'.cmd = commandMove /\ last'.err = "none")
        => LET s == last'.start
               e == last'.end
               d == last'.dest
               n == e - s + 1
           IN  /\ \A m \in marks :
                    /\ (m[2] >= s /\ m[2] <= e) => ~HasMark(marks', m[1])
                    /\ (d >= e /\ m[2] > e /\ m[2] <= d) => <<m[1], m[2] - n>> \in marks'
                    /\ (d < s /\ m[2] > d /\ m[2] < s) => <<m[1], m[2] + n>> \in marks'
                    /\ (m[2] < s /\ m[2] <= d) => m \in marks'
                    /\ (m[2] > e /\ m[2] > d) => m \in marks'
                    /\ (m[2] >= 1 /\ m[2] <= Len(Buffer) /\ (m[2] < s \/ m[2] > e))
                        => \E k \in marks' : k[1] = m[1] /\ Buffer'[k[2]] = Buffer[m[2]]
               /\ \A m \in marks' : HasMark(marks, m[1])
               /\ Cardinality(marks') <= Cardinality(marks)]_vars

\* mark a on line 3, 1m3: mark a is on line 2
C6_Witness ==
    /\ last.cmd = commandMove /\ last.err = "none"
    /\ last.start = 1 /\ last.end = 1 /\ last.dest = 3
    /\ pre.set /\ pre.marks = {<<"a", 3>>}
    /\ marks = {<<"a", 2>>}

\* the lines lo..hi of buf that are not among the lines s..e, in order
LinesOutside(buf, lo, hi, s, e) ==
    SubSeq(buf, lo, IF hi < s - 1 THEN hi ELSE s - 1)
    \o SubSeq(buf, IF lo > e + 1 THEN lo ELSE e + 1, hi)

\* how often the line x occurs in buf
Occurrences(buf, x) == Cardinality({i \in 1..Len(buf) : buf[i] = x})

\* C11: a successful move of the lines s..e to after line d has 1 <= s,
\* 0 <= d <= N and d < s or d >= e; the new buffer is the lines up to d
\* without s..e, then s..e in their order, then the lines after d without
\* s..e; length and multiset of lines are unchanged and the current line is
\* the new position of the last moved line
C11_Move ==
    [][(last'.cmd = commandMove /\ last'.err = "none")
        => LET s == last'.start
               e == last'.end
               d == last'.dest
               upTo == LinesOutside(Buffer, 1, d, s, e)
               after == LinesOutside(Buffer, d + 1, Len(Buffer), s, e)
           IN  /\ s >= 1 /\ s <= e /\ e <= Len(Buffer)
               /\ d >= 0 /\ d <= Len(Buffer) /\ (d < s \/ d >= e)
               /\ Buffer' = upTo \o SubSeq(Buffer, s, e) \o after
               /\ Len(Buffer') = Len(Buffer)
               /\ \A i \in 1..Len(Buffer) :
                      Occurrences(Buffer', Buffer[i]) = Occurrences(Buffer, Buffer[i])
               /\ lineNbr' = Len(upTo) + (e - s + 1)
               /\ dotline' = lineNbr']_vars

\* 2,3m0 on a,b,c gave b,c,a with the current line 2
C11_Witness ==
    /\ last.cmd = commandMove /\ last.err = "none"
    /\ last.start = 2 /\ last.end = 3 /\ last.dest = 0
    /\ pre.set /\ pre.Buffer = File(3)
    /\ Buffer = <<File(3)[2], File(3)[3], File(3)[1]>>
    /\ lineNbr = 2

\* C12: a move of the lines s..e to a destination d with s <= d < e fails
\* with the invalid destination error and leaves the buffer, the current
\* line, the marks, the cut buffer and the undo stack as they were
C12_MoveIntoItself ==
    [][(/\ last'.cmd = commandMove
        /\ last'.start >= 1 /\ last'.start <= last'.dest /\ last'.dest < last'.end)
        => /\ last'.err = "invalidDestination"
           /\ UNCHANGED <<Buffer, dotline, lineNbr, marks, CutBuffer, undo>>]_vars

\* 1,2m1 was rejected
C12_Witness ==
    /\ last.cmd = commandMove /\ last.err = "invalidDestination"
    /\ last.start = 1 /\ last.end = 2 /\ last.dest = 1
    /\ Len(Buffer) >= 2

----------------------------------------------------------------------------
(* Claims about move and undo, checked under SpecMoveUndo *)

\* C13: an undo that follows a successful move succeeds and gives back the
\* buffer as it was before the move
C13_UndoMoveRestoresBuffer ==
    [][(/\ last.cmd = commandMove /\ last.err = "none" /\ pre.set
        /\ last'.cmd = commandUndo)
        => (last'.err = "none" /\ Buffer' = pre.Buffer)]_vars

----------------------------------------------------------------------------
(* Claims about change and undo, checked under SpecChange *)

\* C10 as the claim has it: 2,3c and then u give back the buffer with the
\* current line 2
C10_UndoChangeDotFirst ==
    [][(/\ last.cmd = commandChange /\ last.err = "none" /\ pre.set
        /\ last.start = 2 /\ last.end = 3 /\ last'.cmd = commandUndo)
        => (Buffer' = pre.Buffer /\ lineNbr' = 2)]_vars

\* C10: a change of the lines s..e and then an undo give back the buffer as it
\* was, and the current line is the last line given back, e: after 2,3c and u
\* the current line is 3
C10_UndoChangeDotLast ==
    [][(/\ last.cmd = commandChange /\ last.err = "none" /\ pre.set
        /\ last'.cmd = commandUndo)
        => (/\ last'.err = "none"
            /\ Buffer' = pre.Buffer
            /\ lineNbr' = last.end
            /\ dotline' = last.end
            /\ (last.start = 2 /\ last.end = 3) => lineNbr' = 3)]_vars

\* 2,3c on three lines and then u
C10_Witness ==
    /\ last.cmd = commandUndo /\ last.err = "none"
    /\ Buffer = File(3)
    /\ CutBuffer # <<>> /\ CutBuffer[1] \in {Lx, Ly}
    /\ lineNbr = 3
    /\ undo = <<>>

----------------------------------------------------------------------------
(* Claims about substitute and undo, checked under SpecSubst *)

\* the lines of the buffer now that differ from the lines of the buffer buf
ChangedLines(buf, now) == {n \in 1..Len(buf) : n > Len(now) \/ now[n] # buf[n]}

----------------------------------------------------------------------------
(* Claims about the undo stack, checked under SpecUndo *)

\* C15: a successful undo takes the entry pushed last off the undo stack and
\* leaves the other entries as they were, so that nothing it replayed has
\* pushed an entry; processingUndo is clear whenever a command has returned;
\* a successful delete pushes exactly one entry onto the entries there were.
\* So n deletes and then n undos leave the stack as deep as it was
C15_UndoStack ==
    [][/\ (last'.cmd = commandUndo /\ last'.err = "none")
            => (undo # <<>> /\ undo' = Tail(undo))
       /\ (last'.err # "panic") => (processingUndo' = FALSE)
       /\ (last'.cmd = commandDelete /\ last'.err = "none")
            => (undo' # <<>> /\ Tail(undo') = undo)]_vars

\* an undo has succeeded on a stack of two entries: the older entry is left
C15_Witness ==
    /\ last.cmd = commandUndo /\ last.err = "none"
    /\ Len(undo) = 1
    /\ processingUndo = FALSE

----------------------------------------------------------------------------
(* Claims about address ranges, checked under SpecRange *)

\* C19: in a range a;b the second address is resolved with the current line
\* being the line of the first address: when a resolves to the line s and b,
\* from s, to a line e >= s, the range is (s, e)
C19_SemicolonSetsCurrentLine ==
    (/\ pc = "resolved"
     /\ addrRange.separator = separatorSemicolon
     /\ isSpecified(addrRange.start) /\ isSpecified(addrRange.end))
    => LET Second(first) ==
               LET second == calculateActualLineNumber(addrRange.end, first.line, Buffer, marks)
               IN  (first.err = "none" /\ second.err = "none" /\ first.line <= second.line)
                   => resolvedRange = [start |-> first.line, end |-> second.line, err |-> "none"]
       IN  Second(calculateActualLineNumber(addrRange.start, lineNbr, Buffer, marks))

\* C20: with the current line c and a buffer of N lines, "," is the range
\* (1, N), ";" is (c, N), ",x" is (1, x), ";x" is (c, x), and "x," and "x;" are
\* (x, x), for an address x that resolves; a pair whose start is past its end
\* is the bad range error, and "," on the empty buffer is an error
C20_RangeDefaults ==
    pc = "resolved"
    => LET X(str) == calculateActualLineNumber(newAddress(str).internal, lineNbr, Buffer, marks)
           Is(s, e) == IF s <= e THEN resolvedRange = [start |-> s, end |-> e, err |-> "none"]
                       ELSE resolvedRange.err = "badRange"
           Front(str) == SubSeq(str, 1, Len(str) - 1)
       IN  /\ addrStr = <<separatorComma>>
               => IF Len(Buffer) >= 1 THEN Is(1, Len(Buffer)) ELSE resolvedRange.err # "none"
           /\ addrStr = <<separatorSemicolon>> => Is(lineNbr, Len(Buffer))
           /\ (Len(addrStr) > 1 /\ Head(addrStr) = separatorComma
                /\ X(Tail(addrStr)).err = "none")
               => Is(1, X(Tail(addrStr)).line)
           /\ (Len(addrStr) > 1 /\ Head(addrStr) = separatorSemicolon
                /\ X(Tail(addrStr)).err = "none")
               => Is(lineNbr, X(Tail(addrStr)).line)
           /\ (Len(addrStr) > 1
                /\ addrStr[Len(addrStr)] \in {separatorComma, separatorSemicolon}
                /\ X(Front(addrStr)).err = "none")
               => Is(X(Front(addrStr)).line, X(Front(addrStr)).line)

\* ;3 with the current line 2 has resolved to (2, 3)
C20_Witness ==
    /\ pc = "resolved"
    /\ addrStr = <<separatorSemicolon, "3">>
    /\ lineNbr = 2
    /\ resolvedRange = [start |-> 2, end |-> 3, err |-> "none"]

----------------------------------------------------------------------------
(* Claims about join, and about what every command does with a range or a
   line it cannot take, checked under SpecJoin *)

\* ranges whose first address can resolve to a line after the second
ReversedRangeStrs ==
    {<<"2", ",", "1">>, <<"3", ",", "1">>, <<"3", ",", "2">>, <<"1", ",", "2", "-", "-">>,
     <<"$", ",", "1">>, <<".", ",", "1">>, <<"2", ";", "1">>, <<"+", ",", ".">>}

\* a command line of each command, with what follows the command letter
CommandLines ==
    {[cmd |-> commandAppend, rest |-> <<>>], [cmd |-> commandInsert, rest |-> <<>>],
     [cmd |-> commandChange, rest |-> <<>>], [cmd |-> commandDelete, rest |-> <<>>],
     [cmd |-> commandJoin, rest |-> <<>>], [cmd |-> commandMark, rest |-> <<"a">>],
     [cmd |-> commandMove, rest |-> <<"1">>], [cmd |-> commandPrint, rest |-> <<>>],
     [cmd |-> commandPut, rest |-> <<>>], [cmd |-> commandSubstitute, rest |-> <<>>],
     [cmd |-> commandTransfer, rest |-> <<"1">>], [cmd |-> commandYank, rest |-> <<>>],
     [cmd |-> commandUndo, rest |-> <<>>], [cmd |-> commandEditUnconditionally, rest |-> <<>>]}

\* C21: in every state the editor reaches, a command entered with a range
\* whose two addresses resolve to lines with start > end returns the "address
\* range start > end" error and leaves the whole state as it was: no command
\* runs with a start after its end
C21_ReversedRangeRejected ==
    \A str \in ReversedRangeStrs, c \in CommandLines :
        LET Rejected(s, e, r) ==
                (s.err = "none" /\ e.err = "none" /\ s.line > e.line)
                    => r = Fail(EdState, "badRange")
            Entered(ra) ==
                Rejected(calculateActualLineNumber(ra.start, lineNbr, Buffer, marks),
                         calculateActualLineNumber(ra.end, lineNbr, Buffer, marks),
                         ProcessCommand(Command(ra, c.cmd, c.rest), EdState, <<Lx>>))
        IN  Entered(newRange(str))

\* a join entered with 3,2 on three lines was rejected
C21_Witness ==
    /\ last.cmd = commandJoin
    /\ last.err = "badRange"
    /\ Len(Buffer) = 3
    /\ lineNbr = 2

\* the texts of the lines given, a space between one and the next, one
\* terminator at the end
RECURSIVE Spaced(_)
Spaced(lines) ==
    IF Len(lines) = 1 THEN lines[1]
    ELSE SubSeq(lines[1], 1, Len(lines[1]) - 1) \o <<" ">> \o Spaced(Tail(lines))

\* C28: in every state the editor reaches, a join of the lines s..e of the
\* buffer with 1 <= s < e returns no error and replaces them by one line,
\* their texts in order with one space between them and one terminator at the
\* end; the buffer is e - s lines shorter, line s is the current line and the
\* lines s..e are the cut buffer
C28_Join ==
    \A ra \in Ranges :
        LET Joined(s, e, r) ==
                /\ r.err = "none"
                /\ r.Buffer = SubSeq(Buffer, 1, s - 1) \o <<Spaced(SubSeq(Buffer, s, e))>>
                                  \o SubSeq(Buffer, e + 1, Len(Buffer))
                /\ Len(r.Buffer) = Len(Buffer) - (e - s)
                /\ r.lineNbr = s
                /\ r.dotline = s
                /\ r.CutBuffer = SubSeq(Buffer, s, e)
            Entered(res, r) ==
                (res.err = "none" /\ res.start >= 1 /\ res.start < res.end
                 /\ res.end <= Len(Buffer))
                    => Joined(res.start, res.end, r)
        IN  Entered(resolveAddress(Command(ra, commandJoin, <<>>), EdState),
                    ProcessCommand(Command(ra, commandJoin, <<>>), EdState, <<>>))

\* the lines 2..3 of three were joined
C28_Witness ==
    /\ last.cmd = commandJoin
    /\ last.err = "none"
    /\ last.start = 2
    /\ last.end = 3
    /\ Buffer = <<File(3)[1], <<"b", " ", "c", "\n">>>>
    /\ CutBuffer = SubSeq(File(3), 2, 3)
    /\ lineNbr = 2

\* C29: in every state the editor reaches, a join of one line (one address,
\* or a range with s = e) does nothing: the buffer, the current line, the cut
\* buffer, the undo stack and the changed flag are as before the command
C29_JoinOneLine ==
    \A ra \in Ranges :
        LET Nothing(r) ==
                /\ r.err = "none"
                /\ r.Buffer = Buffer
                /\ r.lineNbr = lineNbr
                /\ r.CutBuffer = CutBuffer
                /\ r.undo = undo
                /\ r.changedSinceLastWrite = changedSinceLastWrite
            Entered(res, r) ==
                (res.err = "none" /\ res.start >= 1 /\ res.start = res.end
                 /\ res.end <= Len(Buffer))
                    => Nothing(r)
        IN  Entered(resolveAddress(Command(ra, commandJoin, <<>>), EdState),
                    ProcessCommand(Command(ra, commandJoin, <<>>), EdState, <<>>))

\* ranges whose first address resolves to line 0
LineZeroRangeStrs == {<<"0">>, <<"0", ",", "1">>, <<"0", ",", "$">>, <<"1", "-">>}

\* the command cmd entered with a range that starts at line 0 returns the
\* invalid line error and leaves the whole state as it was
LineZeroRejected(c) ==
    \A str \in LineZeroRangeStrs :
        LET Rejected(ra, r) == (ra.err = "none" /\ ra.start = 0) => r = Fail(EdState, "invalidLine")
            Entered(cmd) == Rejected(resolveAddress(cmd, EdState), ProcessCommand(cmd, EdState, <<Lx>>))
        IN  Entered(Command(newRange(str), c, <<>>))

\* C22: p, d, c, j, y, s and the source range of m and t reject a start line
\* of 0 with the invalid line error and change nothing
C22_LineZeroRejected ==
    \A c \in {commandPrint, commandDelete, commandChange, commandJoin, commandYank,
              commandSubstitute, commandMove, commandTransfer} : LineZeroRejected(c)

----------------------------------------------------------------------------
(* Claim about the commands that take no address, checked under SpecWithAddress *)

\* C23: e, E and u entered with an address or a range return the "a range
\* may not be specified" error and are not executed: the buffer, the current
\* line, the undo stack and the flags are as before
C23_NoAddressCommands ==
    [][(last'.cmd \in {commandEdit, commandEditUnconditionally, commandUndo} /\ last'.given)
        => /\ last'.err = "rangeMayNotBeSpecified"
           /\ UNCHANGED <<Buffer, CutBuffer, dotline, lineNbr, marks, undo,
                          changedSinceLastWrite>>]_vars

----------------------------------------------------------------------------
(* Claims about yank and put, checked under SpecPut *)

\* a command with the resolved range of the command that ran last
ResolvedAgain(c) == [Command(NoRange, c, <<>>) EXCEPT !.start = last.start, !.end = last.end]

\* C24: a yank of the lines s..e of the buffer, s >= 1, returns no error, sets the cut
\* buffer to the lines s..e in order and leaves the buffer, the number of
\* the current line, the marks and the undo stack as they were; the same yank
\* again leaves the whole state as it is
C24_Yank ==
    [][(last'.cmd = commandYank /\ last'.start >= 1 /\ last'.end <= Len(Buffer))
        => /\ last'.err = "none"
           /\ CutBuffer' = SubSeq(Buffer, last'.start, last'.end)
           /\ UNCHANGED <<Buffer, lineNbr, marks, undo>>
           /\ Yank(ResolvedAgain(commandYank), EdState)' = Fail(EdState, "none")']_vars

\* lines 1..2 of three were yanked over an older cut buffer, the current
\* line is line 3
C24_Witness ==
    /\ last.cmd = commandYank
    /\ last.err = "none"
    /\ last.start = 1
    /\ last.end = 2
    /\ lineNbr = 3
    /\ CutBuffer = SubSeq(Buffer, 1, 2)
    /\ Len(Buffer) = 3

\* C25: a put with a cut buffer of k >= 1 lines and one addressed line n >= 1
\* (the current line when no address is given) returns no error, inserts the
\* lines of the cut buffer in order right after line n, makes line n + k the
\* current line and leaves the cut buffer as it was; a put whose range spans
\* more than one line returns an error and changes nothing
C25_Put ==
    [][(last'.cmd = commandPut)
        => LET n == IF last'.given THEN last'.start ELSE lineNbr
               k == Len(CutBuffer)
           IN  /\ (last'.start >= 1 /\ last'.start = last'.end /\ k >= 1)
                    => /\ last'.err = "none"
                       /\ Buffer' = SubSeq(Buffer, 1, n) \o CutBuffer
                                        \o SubSeq(Buffer, n + 1, Len(Buffer))
                       /\ lineNbr' = n + k
                       /\ dotline' = n + k
                       /\ CutBuffer' = CutBuffer
               /\ (last'.start < last'.end)
                    => /\ last'.err = "rangeMayNotBeSpecified"
                       /\ UNCHANGED <<Buffer, CutBuffer, dotline, lineNbr, marks, undo,
                                      changedSinceLastWrite>>]_vars

\* line 1 of two was yanked and put with no address given while line 2 was
\* the current line: the copy is line 3
C25_Witness ==
    /\ last.cmd = commandPut
    /\ last.err = "none"
    /\ ~last.given
    /\ CutBuffer = <<File(2)[1]>>
    /\ Buffer = File(2) \o <<File(2)[1]>>
    /\ lineNbr = 3

----------------------------------------------------------------------------
(* Claim about change, checked under SpecChange *)

\* C27: in every state the editor reaches, a change of the lines s..e of the
\* buffer, s >= 1, with k >= 1 new lines returns no error and gives the lines
\* 1..s-1, the new lines, the lines e+1..N, also when e = N or the range is
\* the whole buffer; the lines s..e are the cut buffer and line s + k - 1 is
\* the current line
C27_Change ==
    \A ra \in Ranges, t \in InputLines \ {<<>>} :
        LET Replaced(s, e, r) ==
                /\ r.err = "none"
                /\ r.Buffer = SubSeq(Buffer, 1, s - 1) \o t \o SubSeq(Buffer, e + 1, Len(Buffer))
                /\ r.CutBuffer = SubSeq(Buffer, s, e)
                /\ r.lineNbr = s + Len(t) - 1
                /\ r.dotline = s + Len(t) - 1
            Entered(res, r) ==
                (res.err = "none" /\ res.start >= 1 /\ res.end <= Len(Buffer))
                    => Replaced(res.start, res.end, r)
        IN  Entered(resolveAddress(Command(ra, commandChange, <<>>), EdState),
                    ProcessCommand(Command(ra, commandChange, <<>>), EdState, t))

\* the lines 2..3 of three were changed to two new lines
C27_Witness ==
    /\ last.cmd = commandChange
    /\ last.err = "none"
    /\ last.start = 2
    /\ last.end = 3
    /\ Buffer = <<File(3)[1], Lx, Ly>>
    /\ CutBuffer = SubSeq(File(3), 2, 3)
    /\ lineNbr = 3

----------------------------------------------------------------------------
(* Claim about append and insert, checked under SpecAppend *)

\* the ranges of one address
SingleAddresses == {ra \in Ranges : isSpecified(ra.start) /\ isNotSpecified(ra.end)}

\* C26: in every state the editor reaches, an append of k >= 1 lines at an
\* address that resolves to line n, 0 <= n <= N, returns no error and gives
\* the lines 1..n, the entered lines in order, the lines n+1..N; an insert
\* gives the lines 1..n-1, the entered lines, the lines n..N, and for n = 0
\* what it gives for n = 1; the last entered line is the current line
C26_AppendInsert ==
    \A ra \in SingleAddresses, c \in {commandAppend, commandInsert},
       t \in InputLines \ {<<>>} :
        LET After(n) == IF c = commandAppend THEN n ELSE IF n = 0 THEN 0 ELSE n - 1
            Placed(p, r) ==
                /\ r.err = "none"
                /\ r.Buffer = SubSeq(Buffer, 1, p) \o t \o SubSeq(Buffer, p + 1, Len(Buffer))
                /\ r.lineNbr = p + Len(t)
                /\ r.dotline = p + Len(t)
            Entered(res, r) == (res.err = "none") => Placed(After(res.start), r)
        IN  Entered(resolveAddress(Command(ra, c, <<>>), EdState),
                    ProcessCommand(Command(ra, c, <<>>), EdState, t))

\* one line was inserted at line 2 of two
C26_Witness ==
    /\ last.cmd = commandInsert
    /\ last.err = "none"
    /\ last.start = 2
    /\ Buffer = <<File(2)[1], Lx, File(2)[2]>>
    /\ lineNbr = 2

----------------------------------------------------------------------------
(* Claim about transfer, checked under SpecTransfer *)

\* the transfer entered with the range ra and the destination d, when the
\* range resolves to the lines s..e of the buffer, s >= 1, and the destination
\* to a line strictly inside them, satisfies Then(s, e, destination, result)
TransferInside(ra, d, Then(_, _, _, _)) ==
    LET Inside(res, dest, r) ==
            (res.err = "none" /\ dest.err = "none" /\ res.start >= 1
             /\ res.end <= Len(Buffer) /\ res.start < dest.line /\ dest.line < res.end)
                => Then(res.start, res.end, dest.line, r)
        Entered(cmd) ==
            Inside(resolveAddress(cmd, EdState), TransferDestination(cmd, EdState),
                   ProcessCommand(cmd, EdState, <<>>))
    IN  Entered(Command(ra, commandTransfer, d))

\* C30 as claimed: in every state the editor reaches, a transfer s,e t d with
\* s < d < e returns an error and leaves the buffer unchanged
C30_TransferInsideRejected ==
    \A ra \in Ranges, d \in DestStrs :
        LET Rejected(s, e, dest, r) == r.err # "none" /\ r.Buffer = Buffer
        IN  TransferInside(ra, d, Rejected)

\* C30 as the code has it: in every state the editor reaches, a transfer
\* s,e t d with s < d < e returns no error and puts a copy of the lines s..e
\* after line d; the last copied line is the current line
C30_TransferInsideCopies ==
    \A ra \in Ranges, d \in DestStrs :
        LET Copied(s, e, dest, r) ==
                /\ r.err = "none"
                /\ r.Buffer = SubSeq(Buffer, 1, dest) \o SubSeq(Buffer, s, e)
                                  \o SubSeq(Buffer, dest + 1, Len(Buffer))
                /\ r.lineNbr = dest + (e - s + 1)
        IN  TransferInside(ra, d, Copied)

\* the lines 1..3 of three were transferred to after line 2
C30_Witness ==
    /\ last.cmd = commandTransfer
    /\ last.err = "none"
    /\ last.start = 1
    /\ last.end = 3
    /\ last.dest = 2
    /\ Buffer = SubSeq(File(3), 1, 2) \o File(3) \o SubSeq(File(3), 3, 3)
    /\ lineNbr = 5

----------------------------------------------------------------------------
(* Claim about the current line after a substitute, checked under SpecSubst *)

\* C31: in every state the editor reaches, a substitute over the lines s..e
\* of the buffer returns the no substitution error and leaves the current
\* line where it was when no line of s..e matches; when a line matches it
\* returns no error and the current line is the last line of s..e that matched
C31_SubstituteDot ==
    \A ra \in Ranges, c \in {<<"/", "a", "/", "x", "/">>, <<"/", ".", "/", "x", "/">>} :
        LET Last(M) == CHOOSE n \in M : \A k \in M : k <= n
            Done(M, r) ==
                IF M = {} THEN r.err = "noSubstitutions" /\ r.lineNbr = lineNbr
                ELSE r.err = "none" /\ r.lineNbr = Last(M)
            Entered(res, r) ==
                (res.err = "none" /\ res.start >= 1 /\ res.end <= Len(Buffer))
                    => Done({n \in res.start..res.end : MatchString(<<c[2]>>, Buffer[n])}, r)
        IN  Entered(getAddressRange(ra, lineNbr, Buffer, marks),
                    ProcessCommand(Command(ra, commandSubstitute, c), EdState, <<>>))

----------------------------------------------------------------------------
(* Claims about search addresses, checked under SpecSearch *)

\* the lines a search from line c of n lines passes before it is back at c:
\* forward c+1, ..., n, 1, ..., c-1 and backward c-1, ..., 1, n, ..., c+1
ScanForward(c, n) == [k \in 1..(n - 1) |-> ((c + k - 1) % n) + 1]
ScanBackward(c, n) == [k \in 1..(n - 1) |-> ((c - k - 1 + n) % n) + 1]

\* C32: a resolved search for "a" from the current line c names the first
\* line holding "a" in the order c+1, ..., N, 1, 2, ... when it goes forward
\* and in the order c-1, ..., 1, N, N-1, ... when it goes backward, and it is
\* an error when no line of the buffer holds "a"
C32_SearchOrder ==
    pc = "resolved" =>
        LET scan == IF addrStr[1] = identRegexForward
                    THEN ScanForward(lineNbr, Len(Buffer))
                    ELSE ScanBackward(lineNbr, Len(Buffer))
            hits == {k \in 1..Len(scan) : MatchString(<<"a">>, Buffer[scan[k]])}
            First(K) == CHOOSE k \in K : \A j \in K : k <= j
        IN  /\ hits # {} => resolved = [line |-> scan[First(hits)], err |-> "none"]
            /\ (\A n \in 1..Len(Buffer) : ~MatchString(<<"a">>, Buffer[n]))
                   => resolved.err = "noMatch"

\* a forward search from line 3 of four passed line 4, wrapped and took line 1
\* although line 2 holds "a" as well
C32_Witness ==
    /\ pc = "resolved"
    /\ addrStr[1] = identRegexForward
    /\ Buffer = <<La, La, Lb, Lb>>
    /\ lineNbr = 3
    /\ resolved = [line |-> 1, err |-> "none"]

\* C38: a resolved search for "a" succeeds whenever a line of the buffer
\* holds "a", forward and backward alike; when the current line is the only
\* line holding "a" the search resolves to the current line
C38_SearchFindsAnyMatch ==
    pc = "resolved" =>
        LET hits == {n \in 1..Len(Buffer) : MatchString(<<"a">>, Buffer[n])}
        IN  /\ hits # {} => resolved.err = "none"
            /\ hits = {lineNbr} => resolved.line = lineNbr

----------------------------------------------------------------------------
(* Claim about the implicit commands, checked under SpecLine *)

----------------------------------------------------------------------------
(* Claim about the marks behind added or replaced lines, checked under SpecMove *)

\* C34: in every state the editor reaches, after an append, insert, put,
\* change, join or transfer that returns no error every mark on a line behind
\* the lines addressed (behind the destination of a transfer) is a mark of
\* the same line, whose number has changed by as much as the length of the buffer
C34_MarksFollowLines ==
    LET Followed(from, r) ==
            r.err = "none" =>
                \A mk \in marks :
                    mk[2] > from => <<mk[1], mk[2] + Len(r.Buffer) - Len(Buffer)>> \in r.marks
        Entered(res, r) == res.err = "none" => Followed(res.end, r)
        Sent(dest, r) == dest.err = "none" => Followed(dest.line, r)
    IN  /\ \A ra \in Ranges, t \in InputLines \ {<<>>},
              c \in {commandAppend, commandInsert, commandPut, commandChange, commandJoin} :
               Entered(getAddressRange(ra, lineNbr, Buffer, marks),
                       ProcessCommand(Command(ra, c, <<>>), EdState, t))
        /\ \A ra \in Ranges, d \in DestStrs :
               Sent(TransferDestination(Command(ra, commandTransfer, d), EdState),
                    ProcessCommand(Command(ra, commandTransfer, d), EdState, <<>>))

----------------------------------------------------------------------------
(* Claim about the element of the current line, checked under SpecLine *)

\* C35: after every command that returned no error dotline is the element
\* of the buffer at the current line number, and nil when the buffer is empty
C35_DotlineIsCurrentLine ==
    (last.cmd # "" /\ last.err = "none")
        => dotline = (IF Buffer = <<>> THEN 0 ELSE lineNbr)

----------------------------------------------------------------------------
(* Claim about the range of the current line, checked under SpecMoveUndo *)

\* C36: in every state the editor reaches while it runs the current line
\* number is between 0 and the length of the buffer, and it is 0 exactly
\* when the buffer is empty
C36_DotInBuffer ==
    last.err # "panic" =>
        /\ lineNbr >= 0
        /\ lineNbr <= Len(Buffer)
        /\ lineNbr = 0 <=> Buffer = <<>>

----------------------------------------------------------------------------
(* Claim about the flag of unwritten changes, checked under SpecLine *)

\* C37: every command other than e and E that returns no error and leaves
\* another buffer content than it found leaves changedSinceLastWrite true,
\* the undo of a move included, so that a q entered next does not end the
\* session
C37_ChangedAfterAlteration ==
    [][(last'.err = "none" /\ last'.cmd \notin {commandEdit, commandEditUnconditionally}
            /\ Buffer' # Buffer)
         => /\ changedSinceLastWrite'
            /\ ~Quits(Command(newRange(<<>>), commandQuit, <<>>),
                      [changedSinceLastWrite |-> changedSinceLastWrite'])]_vars

----------------------------------------------------------------------------
(* Claim about the commands that leave the cut buffer alone, checked under SpecAppend *)

\* C39: in every state the editor reaches, an append, insert, put, mark,
\* print, move, transfer or undo that does not end the program leaves the
\* cut buffer as it was, whatever command the undo replays
C39_CutBufferKept ==
    LET Kept(r) == r.err # "panic" => r.CutBuffer = CutBuffer
    IN  /\ \A ra \in Ranges, t \in InputLines,
              c \in {commandAppend, commandInsert, commandPut, commandPrint} :
               Kept(ProcessCommand(Command(ra, c, <<>>), EdState, t))
        /\ \A ra \in Ranges, n \in MarkNames :
               Kept(ProcessCommand(Command(ra, commandMark, n), EdState, <<>>))
        /\ \A ra \in Ranges, d \in DestStrs, c \in {commandMove, commandTransfer} :
               Kept(ProcessCommand(Command(ra, c, d), EdState, <<>>))
        /\ Kept(ProcessCommand(Command(newRange(<<>>), commandUndo, <<>>), EdState, <<>>))

----------------------------------------------------------------------------
(* Claim about the undo of added lines, checked under SpecLine *)

\* C40: in every state the editor reaches, an append, insert, put or
\* transfer that returns no error and adds lines, followed by one undo, gives
\* back the buffer as it was before the command, lines and order, wherever
\* the lines were added
C40_UndoRemovesAddedLines ==
    LET u == Command(newRange(<<>>), commandUndo, <<>>)
        Undone(r, back) == back.err = "none" /\ back.Buffer = Buffer
        Added(r) ==
            (r.err = "none" /\ Len(r.Buffer) > Len(Buffer))
                => Undone(r, ProcessCommand(u, r, <<>>))
    IN  /\ \A ra \in Ranges, t \in InputLines,
              c \in {commandAppend, commandInsert, commandPut} :
               Added(ProcessCommand(Command(ra, c, <<>>), EdState, t))
        /\ \A ra \in Ranges, d \in DestStrs :
               Added(ProcessCommand(Command(ra, commandTransfer, d), EdState, <<>>))

\* line 1 of a,b was transferred to the start of the buffer, which is a,a,b,
\* and one undo gives a,b again
C40_Witness ==
    /\ last.cmd = commandTransfer
    /\ last.err = "none"
    /\ last.dest = 0
    /\ pre.set
    /\ pre.Buffer = File(2)
    /\ Buffer = <<File(2)[1]>> \o File(2)
    /\ ProcessCommand(Command(newRange(<<>>), commandUndo, <<>>), EdState, <<>>).Buffer
           = pre.Buffer

====
